---- MODULE Spec2Model ----
(***************************************************************************)
(* A model of the HPL runtime: the module loader with its LRU cache        *)
(* (hpl_runtime/modules/loader.py) and the tree-walking evaluator          *)
(* (hpl_runtime/core/evaluator.py).                                        *)
(***************************************************************************)
EXTENDS Integers, Sequences, FiniteSets, TLC

(***************************************************************************)
(* Bounds of the model.                                                    *)
(***************************************************************************)
CacheCapacity == 2
MaxOps == 5
MaxLoads == 2
MaxEdges == 2

VARIABLES
    cache,      \* ModuleCache.cache: the OrderedDict, oldest entry first
    accessLog,  \* history of the keys touched by a get hit or a put
    lastOp,     \* the cache operation performed last and what it returned
    loading,    \* _loading_modules
    ctx,        \* _loader_context._current_file_dir
    stack,      \* the active _parse_hpl_module calls, innermost last
    failing,    \* an HPLImportError is propagating up the stack
    result,     \* what the last top-level load_module call produced
    made,       \* how often each module file has been parsed
    stdlib,     \* _stdlib_modules: the registered builtin names
    files,      \* what is known of every module file: parses or not, its imports
    pyEnv,      \* whether the plain name x is a Python package, a local .py file, or neither
    loads,      \* number of top-level load_module calls so far
    prog,       \* the function body the evaluator is given
    outcome,    \* what execute_function produced for it, and the statements it ran
    objects,    \* the objects created so far: class, attributes, how created
    lastCall,   \* the last top-level construction or method call and how it ended
    callLog,    \* the method bodies run by that call, in order
    scopes,     \* the scope dictionaries: the defining frame's, the closures'
    closures,   \* the closures created so far
    globals,    \* the evaluator's global scope
    heap,       \* the content of the mapping object bound to d
    returned,   \* the defining frame has returned its closure
    steps,      \* statements executed so far
    arrowCall,  \* the last call of a closure: scope at start and end, result
    call_stack, \* HPLEvaluator.call_stack: the labels of the active calls
    expr_eval_depth,  \* HPLEvaluator.expr_eval_depth
    rec,        \* the recursive run: where it is, the argument, how it ended
    text,       \* HPLLexer.text: the source, one character per element
    pos,        \* HPLLexer.pos (counted from 0)
    at_line_start,  \* HPLLexer.at_line_start
    indent_stack,   \* HPLLexer.indent_stack
    tokens,     \* the token list tokenize() builds
    lexPc,      \* tokenize(): not started, in its loop, returned, or raised
    source,     \* the function body given to the parser: its statements, the block form
    parsed,     \* what parse_block() made of its token list
    own_data,   \* the including document as it was read
    include_data,   \* the included document
    main_data,  \* the including document's data, which merge_data updates
    merged,     \* merge_data has run
    import_lines,   \* the import statements of the function body, as written
    import_block,   \* the statements parse_block() made of them
    imported_modules,   \* HPLEvaluator.imported_modules
    local_scope,    \* the scope the body is executed in
    importPc,       \* how many statements of the body were executed, or "failed"
    thread_file,    \* per thread: the directory of the file it passed to set_current_file last
    observed,       \* per thread: what its last get_current_file_dir returned
    threadOps,      \* number of calls on the loader context so far
    current_obj,    \* HPLEvaluator.current_obj
    current_class,  \* HPLEvaluator.current_class
    frames,         \* the calls and expression evaluations entered and not yet left
    unwinding,      \* a failure is propagating up through the frames
    lastExit,       \* the call left by the last step, with the fields as they were before it
    mod_name,       \* the name under which the main file imports the module
    mod_file,       \* the module's file
    mod_prev,       \* previous_context of the module's _parse_hpl_module call
    lastImport,     \* the last import statement run by code of the module: name, file found, when
    modImports,     \* number of import statements run by code of the module
    modPc,          \* the main file's run: started, loading the module, module loaded
    frame_scope,    \* the local_scope dictionary of the call frame that is executing
    global_scope,   \* HPLEvaluator.global_scope
    lastStmt,       \* the statement executed last, how it ended, both maps before it
    stmtCount       \* statements executed so far

cacheVars == <<cache, accessLog, lastOp>>
loaderVars == <<loading, ctx, stack, failing, result, made, stdlib, files, pyEnv, loads>>
evalVars == <<prog, outcome>>
objVars == <<objects, lastCall, callLog>>
cloVars == <<scopes, closures, globals, heap, returned, steps, arrowCall>>
depthVars == <<call_stack, expr_eval_depth, rec>>
lexVars == <<text, pos, at_line_start, indent_stack, tokens, lexPc>>
parseVars == <<source, parsed>>
mergeVars == <<own_data, include_data, main_data, merged>>
importVars == <<import_lines, import_block, imported_modules, local_scope, importPc>>
threadVars == <<thread_file, observed, threadOps>>
frameVars == <<current_obj, current_class, frames, unwinding, lastExit>>
moduleVars == <<mod_name, mod_file, mod_prev, lastImport, modImports, modPc>>
assignVars == <<frame_scope, global_scope, lastStmt, stmtCount>>
tailVars == <<importVars, threadVars, frameVars, moduleVars, assignVars>>
loaderRest == <<loading, stack, failing, result, made, stdlib, files, pyEnv, loads>>
importRest ==
    <<cacheVars, loaderVars, evalVars, objVars, cloVars, depthVars, lexVars, parseVars,
      mergeVars, threadVars, frameVars, moduleVars, assignVars>>
threadRest ==
    <<cacheVars, loaderRest, evalVars, objVars, cloVars, depthVars, lexVars, parseVars,
      mergeVars, importVars, frameVars, moduleVars, assignVars>>
frameRest ==
    <<cacheVars, loaderVars, evalVars, objVars, cloVars, rec, lexVars, parseVars,
      mergeVars, importVars, threadVars, moduleVars, assignVars>>
moduleRest ==
    <<accessLog, lastOp, stack, failing, result, made, stdlib, files, pyEnv, loads,
      evalVars, objVars, cloVars, depthVars, lexVars, parseVars, mergeVars, importVars,
      threadVars, frameVars, assignVars>>
assignRest ==
    <<cacheVars, loaderVars, evalVars, objVars, cloVars, depthVars, lexVars, parseVars,
      mergeVars, importVars, threadVars, frameVars, moduleVars>>
laterVars == <<parseVars, mergeVars, tailVars>>
restVars == <<depthVars, lexVars, laterVars>>
interpVars == <<evalVars, objVars, cloVars, restVars>>
vars == <<cacheVars, loaderVars, interpVars>>

(***************************************************************************)
(* Sequence helpers.                                                       *)
(***************************************************************************)
Range(s) == {s[i] : i \in 1..Len(s)}

RemoveAt(s, i) == SubSeq(s, 1, i - 1) \o SubSeq(s, i + 1, Len(s))

(***************************************************************************)
(* ModuleCache: an OrderedDict with move_to_end on access.                 *)
(***************************************************************************)
CacheKeys(c) == {c[i].key : i \in 1..Len(c)}

CacheIndex(c, k) == CHOOSE i \in 1..Len(c) : c[i].key = k

CacheValue(c, k) == c[CacheIndex(c, k)].value

MoveToEnd(c, k) == RemoveAt(c, CacheIndex(c, k)) \o <<c[CacheIndex(c, k)]>>

\* ModuleCache.get: the cache after the call (a hit moves the entry to the end)
CacheGet(c, k) == IF k \in CacheKeys(c) THEN MoveToEnd(c, k) ELSE c

\* dropping the newest entry instead of the oldest
CachePutNewestOut(c, k, v, cap) ==
    IF k \in CacheKeys(c)
    THEN RemoveAt(c, CacheIndex(c, k)) \o <<[key |-> k, value |-> v]>>
    ELSE IF Len(c) >= cap
         THEN SubSeq(c, 1, Len(c) - 1) \o <<[key |-> k, value |-> v]>>
         ELSE c \o <<[key |-> k, value |-> v]>>

\* ModuleCache.put
CachePut(c, k, v, cap) ==
    IF k \in CacheKeys(c)
    THEN RemoveAt(c, CacheIndex(c, k)) \o <<[key |-> k, value |-> v]>>
    ELSE IF Len(c) >= cap
         THEN Tail(c) \o <<[key |-> k, value |-> v]>>
         ELSE c \o <<[key |-> k, value |-> v]>>

(***************************************************************************)
(* The file system and the names a program can import.  A name is the list *)
(* of its path segments: <<"a">> is the plain name a, <<"lib", "b">> is    *)
(* lib/b and <<".", "c">> is ./c.                                          *)
(***************************************************************************)
Cwd == "root"
NoDir == "none"
Dirs == {"root", "lib"}
ModulePaths == <<"packages">>
Files == {<<"root", "a">>, <<"lib", "b">>, <<"root", "c">>, <<"lib", "c">>}
NoFile == <<"none", "none">>
Names == {<<"a">>, <<"lib", "b">>, <<".", "c">>, <<"x">>}
PlainNames == {n \in Names : Len(n) = 1}
PySource == <<"py", "x">>
Sources == Files \cup {PySource}

\* _is_file_path: the name contains a separator or starts with ./ or ../
IsFilePath(n) == Len(n) > 1

\* _is_dot_notation: no name of the model is dotted
IsDotNotation(n) == FALSE

\* (current_file_dir / module_name).resolve().with_suffix('.hpl')
JoinPath(dir, n) ==
    IF n[1] = "." THEN <<dir, n[2]>>
    ELSE IF dir = Cwd THEN <<n[1], n[2]>>
    ELSE <<"nowhere", n[2]>>

\* the search path list of _load_hpl_module
SearchPaths(c) == (IF c # NoDir THEN <<c>> ELSE <<>>) \o <<Cwd>> \o ModulePaths

RECURSIVE FirstExisting(_, _)
FirstExisting(paths, base) ==
    IF paths = <<>> THEN NoFile
    ELSE IF <<Head(paths), base>> \in Files THEN <<Head(paths), base>>
    ELSE FirstExisting(Tail(paths), base)

\* _load_hpl_module: the .hpl file a name resolves to, or NoFile
FindHplFile(c, n) ==
    IF IsFilePath(n)
    THEN LET f == JoinPath(IF c # NoDir THEN c ELSE Cwd, n)
         IN IF f \in Files THEN f ELSE NoFile
    ELSE FirstExisting(SearchPaths(c), n[1])

\* _load_python_package: importlib finds a package of that name
PyPackageFound(n, env) == n = <<"x">> /\ env = "pkg"

\* _load_python_module: a local .py file of that name exists
PyFileFound(n, env) == n = <<"x">> /\ env = "file"

\* what the Python lookups for n can find: what they found before, or anything
PyEnvOf(n) ==
    IF pyEnv # "unseen" \/ n # <<"x">> THEN {pyEnv} ELSE {"none", "pkg", "file"}

(***************************************************************************)
(* load_module up to the point where it returns, fails or starts parsing.  *)
(***************************************************************************)
\* forgetting to mark the module as being loaded
MarkLoadingSkip(l, n) == l

\* _parse_hpl_module: _loading_modules.add(module_name)
MarkLoading(l, n) == l \cup {n}

\* going to the registry and the files without asking the cache
LoadOutcomeNoCache(n, env) ==
    IF n \in loading THEN "cycle"
    ELSE IF n \in stdlib THEN "stdlib"
    ELSE IF ~IsFilePath(n) /\ ~IsDotNotation(n) /\ PyPackageFound(n, env) THEN "pypkg"
    ELSE IF FindHplFile(ctx, n) # NoFile THEN "hpl"
    ELSE IF PyFileFound(n, env) THEN "pyfile"
    ELSE "notfound"

\* load_module: which of its branches a call takes
LoadOutcome(n, env) ==
    IF n \in loading THEN "cycle"
    ELSE IF n \in CacheKeys(cache) THEN "hit"
    ELSE IF n \in stdlib THEN "stdlib"
    ELSE IF ~IsFilePath(n) /\ ~IsDotNotation(n) /\ PyPackageFound(n, env) THEN "pypkg"
    ELSE IF FindHplFile(ctx, n) # NoFile THEN "hpl"
    ELSE IF PyFileFound(n, env) THEN "pyfile"
    ELSE "notfound"

Unknown == [known |-> FALSE, ok |-> TRUE, imports |-> <<>>]

\* the number of import entries of the module files read so far
EdgeCount ==
    Len(files[<<"root", "a">>].imports) + Len(files[<<"lib", "b">>].imports)
    + Len(files[<<"root", "c">>].imports) + Len(files[<<"lib", "c">>].imports)

\* what parsing the file f can find: its known text, or any text within the bounds
ContentsOf(f) ==
    IF files[f].known THEN {files[f]}
    ELSE {[known |-> TRUE, ok |-> FALSE, imports |-> <<>>]}
         \cup {[known |-> TRUE, ok |-> TRUE, imports |-> l] :
                 l \in UNION {[1..k -> Names] : k \in 0..(MaxEdges - EdgeCount)}}

NoResult == [st |-> "none", name |-> <<"none">>, handle |-> <<"none">>, kind |-> "none", via |-> "none"]

Running(n) == [st |-> "run", name |-> n, handle |-> <<"none">>, kind |-> "none", via |-> "hpl"]

Ok(n, h, out) == [st |-> "ok", name |-> n, handle |-> h, kind |-> "none", via |-> out]

Fail(n, out) == [st |-> "fail", name |-> n, handle |-> <<"none">>, kind |-> "Import", via |-> out]

Top == stack[Len(stack)]

Pop == SubSeq(stack, 1, Len(stack) - 1)

\* the module handle a load that does not parse returns, and the cache after it
Immediate(n, out) ==
    IF out = "hit" THEN [handle |-> CacheValue(cache, n), cache |-> CacheGet(cache, n)]
    ELSE IF out = "stdlib"
    THEN [handle |-> <<"std", n, 0>>,
          cache |-> CachePut(cache, n, <<"std", n, 0>>, CacheCapacity)]
    ELSE [handle |-> <<"py", n, made[PySource] + 1>>,
          cache |-> CachePut(cache, n, <<"py", n, made[PySource] + 1>>, CacheCapacity)]

\* _parse_hpl_module up to the call of the parser: the frame it pushes
BeginParse(n, content) ==
    LET f == FindHplFile(ctx, n)
    IN /\ Len(stack) <= Cardinality(Names)
       /\ files' = [files EXCEPT ![f] = content]
       /\ loading' = MarkLoading(loading, n)
       /\ ctx' = f[1]
       /\ made' = [made EXCEPT ![f] = @ + 1]
       /\ stack' = stack \o <<[name |-> n, file |-> f, prev |-> ctx, idx |-> 1,
                               handle |-> <<"hpl", f, made[f] + 1>>]>>
       /\ failing' = ~content.ok

\* load_module called by the evaluator (an import statement or a top-level import)
LoadTop(n) ==
    /\ stack = <<>> /\ ~failing /\ loads < MaxLoads
    /\ loads' = loads + 1
    /\ \E env \in PyEnvOf(n) :
       /\ pyEnv' = env
       /\ LET out == LoadOutcome(n, env)
          IN
          \/ /\ out \in {"cycle", "notfound"}
             /\ result' = Fail(n, out)
             /\ UNCHANGED <<cache, loading, ctx, stack, failing, made, files>>
          \/ /\ out \in {"hit", "stdlib", "pypkg", "pyfile"}
             /\ result' = Ok(n, Immediate(n, out).handle, out)
             /\ cache' = Immediate(n, out).cache
             /\ made' = IF out \in {"pypkg", "pyfile"}
                        THEN [made EXCEPT ![PySource] = @ + 1] ELSE made
             /\ UNCHANGED <<loading, ctx, stack, failing, files>>
          \/ /\ out = "hpl"
             /\ \E content \in ContentsOf(FindHplFile(ctx, n)) : BeginParse(n, content)
             /\ result' = Running(n)
             /\ UNCHANGED cache
    /\ UNCHANGED <<accessLog, lastOp, stdlib, interpVars>>

\* the import loop of _parse_hpl_module: load_module(imp['module'])
ImportNext ==
    /\ stack # <<>> /\ ~failing
    /\ Top.idx <= Len(files[Top.file].imports)
    /\ \E env \in PyEnvOf(files[Top.file].imports[Top.idx]) :
       /\ pyEnv' = env
       /\ LET n == files[Top.file].imports[Top.idx]
              out == LoadOutcome(n, env)
          IN
          \/ /\ out \in {"cycle", "notfound"}
             /\ failing' = TRUE
             /\ UNCHANGED <<cache, loading, ctx, stack, made, files>>
          \/ /\ out \in {"hit", "stdlib", "pypkg", "pyfile"}
             /\ cache' = Immediate(n, out).cache
             /\ made' = IF out \in {"pypkg", "pyfile"}
                        THEN [made EXCEPT ![PySource] = @ + 1] ELSE made
             /\ stack' = [stack EXCEPT ![Len(stack)].idx = @ + 1]
             /\ UNCHANGED <<loading, ctx, failing, files>>
          \/ /\ out = "hpl"
             /\ \E content \in ContentsOf(FindHplFile(ctx, n)) : BeginParse(n, content)
             /\ UNCHANGED cache
    /\ UNCHANGED <<accessLog, lastOp, stdlib, result, loads, interpVars>>

\* _parse_hpl_module returns the module; load_module caches and returns it
ParseFinish ==
    /\ stack # <<>> /\ ~failing
    /\ Top.idx > Len(files[Top.file].imports)
    /\ loading' = loading \ {Top.name}
    /\ ctx' = Top.prev
    /\ cache' = CachePut(cache, Top.name, Top.handle, CacheCapacity)
    /\ IF Len(stack) = 1
       THEN /\ stack' = <<>>
            /\ result' = Ok(Top.name, Top.handle, "hpl")
       ELSE /\ stack' = [Pop EXCEPT ![Len(stack) - 1].idx = @ + 1]
            /\ UNCHANGED result
    /\ UNCHANGED <<accessLog, lastOp, failing, made, stdlib, files, pyEnv, loads, interpVars>>

\* a failure path that leaves the name in the in-flight set
UnwindKeepsLoading ==
    /\ stack # <<>> /\ failing
    /\ ctx' = Top.prev
    /\ stack' = Pop
    /\ IF Len(stack) = 1
       THEN /\ failing' = FALSE
            /\ result' = Fail(Top.name, "hpl")
       ELSE UNCHANGED <<failing, result>>
    /\ UNCHANGED <<cache, accessLog, lastOp, loading, made, stdlib, files, pyEnv, loads, interpVars>>

\* a failure path that leaves the directory context where the failed module put it
UnwindKeepsContext ==
    /\ stack # <<>> /\ failing
    /\ loading' = loading \ {Top.name}
    /\ stack' = Pop
    /\ IF Len(stack) = 1
       THEN /\ failing' = FALSE
            /\ result' = Fail(Top.name, "hpl")
       ELSE UNCHANGED <<failing, result>>
    /\ UNCHANGED <<cache, accessLog, lastOp, ctx, made, stdlib, files, pyEnv, loads, interpVars>>

\* a failure path that caches the module whose parse failed
UnwindCachesModule ==
    /\ stack # <<>> /\ failing
    /\ loading' = loading \ {Top.name}
    /\ ctx' = Top.prev
    /\ cache' = CachePut(cache, Top.name, Top.handle, CacheCapacity)
    /\ stack' = Pop
    /\ IF Len(stack) = 1
       THEN /\ failing' = FALSE
            /\ result' = Fail(Top.name, "hpl")
       ELSE UNCHANGED <<failing, result>>
    /\ UNCHANGED <<accessLog, lastOp, made, stdlib, files, pyEnv, loads, interpVars>>

\* the except and finally clauses of _parse_hpl_module on a failure
Unwind ==
    /\ stack # <<>> /\ failing
    /\ loading' = loading \ {Top.name}
    /\ ctx' = Top.prev
    /\ stack' = Pop
    /\ IF Len(stack) = 1
       THEN /\ failing' = FALSE
            /\ result' = Fail(Top.name, "hpl")
       ELSE UNCHANGED <<failing, result>>
    /\ UNCHANGED <<cache, accessLog, lastOp, made, stdlib, files, pyEnv, loads, interpVars>>

\* set_current_hpl_file, called by the interpreter before a run
SetCurrentHplFile(d) ==
    /\ stack = <<>> /\ ~failing /\ loads = 0
    /\ ctx = NoDir
    /\ ctx' = d
    /\ UNCHANGED <<cacheVars, loading, stack, failing, result, made, stdlib, files, pyEnv, loads, interpVars>>

\* register_module
RegisterModule(n) ==
    /\ stack = <<>> /\ ~failing /\ loads = 0
    /\ n \notin stdlib
    /\ stdlib' = stdlib \cup {n}
    /\ UNCHANGED <<cacheVars, loading, ctx, stack, failing, result, made, files, pyEnv, loads, interpVars>>

\* ModuleCache.clear (explored while a load can still follow it)
ClearCache ==
    /\ stack = <<>> /\ ~failing /\ loads < MaxLoads
    /\ cache # <<>>
    /\ cache' = <<>>
    /\ UNCHANGED <<accessLog, lastOp, loaderVars, interpVars>>

NoProg == [ctx |-> "none", x |-> "none", catch |-> "none", y |-> "none", fin |-> "none"]
NoOutcome == [sig |-> "none", val |-> "null", trace |-> <<>>, e |-> "null"]
EvalIdle == prog = NoProg /\ outcome = NoOutcome
NoCall == [op |-> "none", cls |-> "none", obj |-> 0, method |-> "none", args |-> <<>>, err |-> "none"]
ObjIdle == objects = <<>> /\ lastCall = NoCall /\ callLog = <<>>
Undef == [k |-> "undef", v |-> 0]
VarNames == {"x", "f", "d", "g", "h"}
EmptyScope == [n \in VarNames |-> Undef]
NoArrowCall ==
    [n |-> 0, clo |-> 0, again |-> FALSE, name |-> "none", start |-> EmptyScope,
     end |-> EmptyScope, result |-> Undef]

NoRec == [pc |-> "idle", variant |-> "none", n |-> 0, value |-> 0, limit |-> "none", depth |-> 0]
DepthIdle == call_stack = <<>> /\ expr_eval_depth = 0 /\ rec = NoRec
LexIdle ==
    /\ text = <<>> /\ pos = 0 /\ at_line_start = TRUE
    /\ indent_stack = <<0>> /\ tokens = <<>> /\ lexPc = "idle"
NoSource == [statements |-> <<>>, form |-> "none"]
NotParsed == [ok |-> FALSE, node |-> <<>>, pos |-> -1]
ParseIdle == source = NoSource /\ parsed = NotParsed
MergeIdle == own_data = <<>> /\ include_data = <<>> /\ main_data = <<>> /\ merged = FALSE
ImportIdle ==
    /\ import_lines = <<>> /\ import_block = <<>> /\ imported_modules = <<>>
    /\ local_scope = <<>> /\ importPc = "idle"
ThreadIdle == thread_file = <<>> /\ observed = <<>> /\ threadOps = 0
FrameIdle ==
    /\ current_obj = 0 /\ current_class = "none" /\ frames = <<>>
    /\ unwinding = FALSE /\ lastExit = <<>>
ModuleIdle ==
    /\ mod_name = <<>> /\ mod_file = <<>> /\ mod_prev = "none" /\ lastImport = <<>>
    /\ modImports = 0 /\ modPc = "idle"
AssignIdle ==
    frame_scope = <<>> /\ global_scope = <<>> /\ lastStmt = <<>> /\ stmtCount = 0
TailIdle == ImportIdle /\ ThreadIdle /\ FrameIdle /\ ModuleIdle /\ AssignIdle
LaterIdle == ParseIdle /\ MergeIdle /\ TailIdle
RestIdle == DepthIdle /\ LexIdle /\ LaterIdle

CloIdle ==
    /\ scopes = <<EmptyScope>>
    /\ closures = <<>>
    /\ globals = EmptyScope
    /\ heap = 0
    /\ returned = FALSE
    /\ steps = 0
    /\ arrowCall = NoArrowCall

InitLoader ==
    /\ RestIdle
    /\ EvalIdle /\ ObjIdle /\ CloIdle
    /\ cache = <<>> /\ accessLog = <<>>
    /\ lastOp = [op |-> "none", key |-> <<"none">>, hit |-> FALSE]
    /\ loading = {} /\ ctx = NoDir /\ stack = <<>> /\ failing = FALSE
    /\ result = NoResult
    /\ made = [s \in Sources |-> 0]
    /\ stdlib = {}
    /\ files = [f \in Files |-> Unknown]
    /\ pyEnv = "unseen"
    /\ loads = 0

NextLoader ==
    \/ \E n \in Names : LoadTop(n)
    \/ ImportNext
    \/ ParseFinish
    \/ Unwind
    \/ \E d \in Dirs : SetCurrentHplFile(d)
    \/ RegisterModule(<<"x">>)
    \/ ClearCache

SpecLoader == InitLoader /\ [][NextLoader]_vars

(***************************************************************************)
(* The cache on its own: any sequence of get, put, del and clear.          *)
(***************************************************************************)
CacheValues == {"m1", "m2"}

LoaderIdle ==
    /\ loading = {} /\ ctx = NoDir /\ stack = <<>> /\ failing = FALSE
    /\ result = NoResult
    /\ made = [s \in Sources |-> 0]
    /\ stdlib = {}
    /\ files = [f \in Files |-> Unknown]
    /\ pyEnv = "unseen"
    /\ loads = 0

\* ModuleCache.get
GetOp(k) ==
    /\ Len(accessLog) < MaxOps
    /\ cache' = CacheGet(cache, k)
    /\ accessLog' = IF k \in CacheKeys(cache) THEN Append(accessLog, k) ELSE accessLog
    /\ lastOp' = [op |-> "get", key |-> k, hit |-> k \in CacheKeys(cache)]
    /\ UNCHANGED <<loaderVars, interpVars>>

\* ModuleCache.put and ModuleCache.__setitem__
PutOp(k, v) ==
    /\ Len(accessLog) < MaxOps
    /\ cache' = CachePut(cache, k, v, CacheCapacity)
    /\ accessLog' = Append(accessLog, k)
    /\ lastOp' = [op |-> "put", key |-> k, hit |-> k \in CacheKeys(cache)]
    /\ UNCHANGED <<loaderVars, interpVars>>

\* ModuleCache.__delitem__
DelOp(k) ==
    /\ k \in CacheKeys(cache)
    /\ cache' = RemoveAt(cache, CacheIndex(cache, k))
    /\ lastOp' = [op |-> "del", key |-> k, hit |-> TRUE]
    /\ UNCHANGED <<accessLog, loaderVars, interpVars>>

\* ModuleCache.clear
ClearOp ==
    /\ cache # <<>>
    /\ cache' = <<>>
    /\ lastOp' = [op |-> "clear", key |-> <<"none">>, hit |-> FALSE]
    /\ UNCHANGED <<accessLog, loaderVars, interpVars>>

InitCache ==
    /\ RestIdle
    /\ cache = <<>> /\ accessLog = <<>>
    /\ lastOp = [op |-> "none", key |-> <<"none">>, hit |-> FALSE]
    /\ LoaderIdle
    /\ EvalIdle /\ ObjIdle /\ CloIdle

NextCache ==
    \/ \E k \in Names : GetOp(k)
    \/ \E k \in Names, v \in CacheValues : PutOp(k, v)
    \/ \E k \in Names : DelOp(k)
    \/ ClearOp

SpecCache == InitCache /\ [][NextCache]_vars

(***************************************************************************)
(* Claims about the loader and its cache.                                  *)
(***************************************************************************)
NoRepeatInStack ==
    \A i, j \in 1..Len(stack) : i # j => stack[i].name # stack[j].name

\* a step of the import loop that asks for a name that is being loaded
Reentry ==
    /\ stack # <<>> /\ ~failing
    /\ Top.idx <= Len(files[Top.file].imports)
    /\ files[Top.file].imports[Top.idx] \in loading

\* root/a imports lib/b and lib/b imports a
MutualImport ==
    /\ files[<<"root", "a">>].known /\ files[<<"lib", "b">>].known
    /\ <<"lib", "b">> \in Range(files[<<"root", "a">>].imports)
    /\ <<"a">> \in Range(files[<<"lib", "b">>].imports)

\* C1: a load of a name that is in flight fails at once without parsing
\* anything, no name is ever in flight twice (so the nesting of loads is at
\* most the number of names), and when a imports lib/b and lib/b imports a
\* no load of either ever succeeds: it fails with an Import failure.
C1_CycleFails ==
    /\ [](NoRepeatInStack /\ Len(stack) <= Cardinality(Names))
    /\ [][Reentry => failing' /\ made' = made /\ stack' = stack /\ loading' = loading]_vars
    /\ []((MutualImport /\ result.name \in {<<"a">>, <<"lib", "b">>} /\ result.st # "run")
            => (result.st = "fail" /\ result.kind = "Import"))

C1_Witness ==
    /\ MutualImport
    /\ result.st = "fail" /\ result.name = <<"a">>
    /\ made[<<"root", "a">>] = 1 /\ made[<<"lib", "b">>] = 1

\* the key of keys whose most recent access (get hit or put) is the oldest
LastAccess(log, k) == CHOOSE i \in 1..Len(log) : log[i] = k /\ \A j \in (i + 1)..Len(log) : log[j] # k

LeastRecentlyAccessed(log, keys) ==
    CHOOSE k \in keys : \A o \in keys : LastAccess(log, k) <= LastAccess(log, o)

\* C2: the cache never holds more than its capacity, and a put of an absent
\* key into a full cache removes exactly the entry whose most recent access
\* is the oldest and nothing else.
C2_LruBound ==
    /\ [](Len(cache) <= CacheCapacity /\ Cardinality(CacheKeys(cache)) = Len(cache))
    /\ [][(lastOp'.op = "put" /\ ~lastOp'.hit /\ Len(cache) = CacheCapacity
            /\ Len(accessLog') = Len(accessLog) + 1)
          => CacheKeys(cache') = (CacheKeys(cache)
                                  \ {LeastRecentlyAccessed(accessLog, CacheKeys(cache))})
                                 \cup {lastOp'.key}]_vars

\* an eviction that spared the entry inserted first, because it was used since
C2_Witness ==
    /\ lastOp.op = "put" /\ ~lastOp.hit
    /\ Len(cache) = CacheCapacity
    /\ Len(accessLog) > CacheCapacity + 1
    /\ accessLog[1] \in CacheKeys(cache)
    /\ accessLog[2] \notin CacheKeys(cache)
    /\ lastOp.key # accessLog[1]

\* C3: a load of a name that has an entry in the cache returns the handle
\* of that entry and parses nothing, at the top level and in an import loop.
C3_CachedNoReparse ==
    /\ [][\A n \in Names :
            (loads' = loads + 1 /\ result'.name = n /\ n \in CacheKeys(cache))
            => (result'.st = "ok" /\ result'.handle = CacheValue(cache, n)
                /\ made' = made /\ stack' = stack)]_vars
    /\ [][(stack # <<>> /\ ~failing /\ Top.idx <= Len(files[Top.file].imports)
            /\ files[Top.file].imports[Top.idx] \in CacheKeys(cache)
            /\ files[Top.file].imports[Top.idx] \notin loading)
          => (made' = made /\ Len(stack') = Len(stack) /\ ~failing'
              /\ stack'[Len(stack)].idx = Top.idx + 1)]_vars

C3_Witness ==
    /\ result.st = "ok" /\ result.via = "hit"
    /\ result.handle[1] = "hpl"
    /\ made[result.handle[2]] = 1

\* the names of the modules whose parse has started and not yet ended
InFlightNames == {stack[i].name : i \in 1..Len(stack)}

\* C11: the in-flight set holds exactly the names of the parses that are
\* still running, so every exit from a parse (normal, parse failure, failed
\* nested import, detected cycle) has removed its name, and once a top-level
\* load has returned or failed the in-flight set is empty.
C11_InFlightCleared ==
    /\ loading = InFlightNames
    /\ (stack = <<>> => loading = {})

\* a top-level load that failed because a nested import failed to parse
C11_Witness ==
    /\ stack = <<>> /\ loading = {}
    /\ result.st = "fail" /\ result.name = <<"a">> /\ result.via = "hpl"
    /\ files[<<"root", "a">>].known /\ files[<<"root", "a">>].ok
    /\ <<"lib", "b">> \in Range(files[<<"root", "a">>].imports)
    /\ files[<<"lib", "b">>].known /\ ~files[<<"lib", "b">>].ok
    /\ made[<<"lib", "b">>] = 1

\* C12: while a module is being parsed the directory context is that
\* module's directory; a parse that starts records the context it found, and
\* every exit from a parse, successful or failed, puts that context back; a
\* load that parses nothing leaves the context alone.
C12_ContextRestored ==
    /\ [](stack # <<>> => ctx = Top.file[1])
    /\ [][Len(stack') > Len(stack)
            => (stack'[Len(stack')].prev = ctx /\ ctx' = stack'[Len(stack')].file[1])]_vars
    /\ [][Len(stack') < Len(stack) => ctx' = Top.prev]_vars
    /\ [][(Len(stack') = Len(stack) /\ loads' = loads /\ stack # <<>>) => ctx' = ctx]_vars
    /\ [][(loads' # loads /\ stack' = <<>>) => ctx' = ctx]_vars

\* a failed load of a module of another directory, after which the context
\* is again the directory of the importing file
C12_Witness ==
    /\ stack = <<>> /\ ctx = "lib"
    /\ result.st = "fail" /\ result.via = "hpl" /\ result.name = <<"a">>
    /\ made[<<"root", "a">>] = 1
    /\ <<"lib", "b">> \in Range(files[<<"root", "a">>].imports)
    /\ made[<<"lib", "b">>] = 1

\* the file a path name denotes for the importer whose directory is c
PathTarget(c, n) == JoinPath(IF c # NoDir THEN c ELSE Cwd, n)

\* C13: a load of a path name that succeeds returns the module of the file
\* at that path resolved against the importing file's directory (the working
\* directory when there is none), whatever was loaded before: at the top
\* level when it returns at once, in an import loop when it returns at once,
\* and when it starts a parse.
C13_PathResolvesAgainstImporter ==
    /\ [][\A n \in Names :
            (IsFilePath(n) /\ stack = <<>> /\ loads' = loads + 1
             /\ result'.name = n /\ result'.st = "ok")
            => result'.handle[2] = PathTarget(ctx, n)]_vars
    /\ [][(stack # <<>> /\ ~failing /\ Top.idx <= Len(files[Top.file].imports)
            /\ IsFilePath(files[Top.file].imports[Top.idx])
            /\ Len(stack') = Len(stack) /\ ~failing')
          => Immediate(files[Top.file].imports[Top.idx],
                       LoadOutcome(files[Top.file].imports[Top.idx], pyEnv')).handle[2]
             = PathTarget(ctx, files[Top.file].imports[Top.idx])]_vars
    /\ [][(Len(stack') > Len(stack) /\ IsFilePath(stack'[Len(stack')].name))
          => stack'[Len(stack')].file = PathTarget(ctx, stack'[Len(stack')].name)]_vars

\* the kind and origin of the module the four sources yield, tried in order,
\* for a load of n from the directory context c: the first that has it
FirstSource(c, n, env) ==
    IF n \in stdlib THEN <<"std", n>>
    ELSE IF ~IsFilePath(n) /\ ~IsDotNotation(n) /\ PyPackageFound(n, env) THEN <<"py", n>>
    ELSE IF FindHplFile(c, n) # NoFile THEN <<"hpl", FindHplFile(c, n)>>
    ELSE IF PyFileFound(n, env) THEN <<"py", n>>
    ELSE <<"none">>

\* the name the import loop of the innermost running parse loads next
NextImport == files[Top.file].imports[Top.idx]

\* C14: a load of a name that is not in flight gets its module from the
\* first of the builtin registry, the Python package (plain names only), the
\* local module file and the local Python file that has it, and fails with an
\* Import failure exactly when none has it: at the top level and in an
\* import loop, whether it returns at once, starts a parse or fails.
C14_FirstSourceWins ==
    /\ [][\A n \in Names :
            (stack = <<>> /\ loads' = loads + 1 /\ result'.name = n)
            => /\ result'.st = "ok"
                    => SubSeq(result'.handle, 1, 2) = FirstSource(ctx, n, pyEnv')
               /\ result'.st = "run"
                    => <<"hpl", stack'[1].file>> = FirstSource(ctx, n, pyEnv')
               /\ result'.st = "fail"
                    <=> FirstSource(ctx, n, pyEnv') = <<"none">>
               /\ result'.st = "fail" => result'.kind = "Import"]_vars
    /\ [][(stack # <<>> /\ ~failing /\ Top.idx <= Len(files[Top.file].imports)
            /\ NextImport \notin loading)
          => /\ Len(stack') > Len(stack)
                  => <<"hpl", stack'[Len(stack')].file>> = FirstSource(ctx, NextImport, pyEnv')
             /\ (Len(stack') = Len(stack) /\ ~failing')
                  => SubSeq(Immediate(NextImport, LoadOutcome(NextImport, pyEnv')).handle, 1, 2)
                     = FirstSource(ctx, NextImport, pyEnv')
             /\ (Len(stack') = Len(stack) /\ failing')
                  <=> FirstSource(ctx, NextImport, pyEnv') = <<"none">>]_vars

(***************************************************************************)
(* Evaluator: statement execution and control flow (core/evaluator.py).    *)
(* Statements are records; executing a function body is computed the way   *)
(* the tree-walking evaluator does it: a return is a value handed back up   *)
(* (HPLReturnValue), break, continue and failures are raised.  The result   *)
(* of executing a statement is a record with the signal it ended with, the *)
(* carried value, the variables, and the list of leaf statements executed. *)
(***************************************************************************)
Null == "null"
NoType == "catchall"

Echo(l) == [t |-> "echo", l |-> l]
Return(v, l) == [t |-> "return", v |-> v, l |-> l]
Break(l) == [t |-> "break", l |-> l]
Continue(l) == [t |-> "continue", l |-> l]
Throw(l) == [t |-> "throw", l |-> l]
\* A statement whose evaluation raises a failure of the given kind (an
\* expression raising HPLTypeError, an import raising HPLImportError).
FailingExpr(kind, l) == [t |-> "expr", kind |-> kind, l |-> l]
Assign(v) == [t |-> "assign", v |-> v]
Increment == [t |-> "increment"]
If(c, thenBlock, elseBlock) == [t |-> "if", c |-> c, then_block |-> thenBlock, else_block |-> elseBlock]
ForIn(n, body) == [t |-> "for", n |-> n, body |-> body]
While(n, body) == [t |-> "while", n |-> n, body |-> body]
\* A statement that calls a user function whose body is the given block.
FunctionCall(body) == [t |-> "call", body |-> body]
Block(stmts) == [present |-> TRUE, statements |-> stmts]
NoBlock == [present |-> FALSE, statements |-> <<>>]
CatchClause(etype, block) == [error_type |-> etype, block |-> block]
TryCatch(tryBlock, catches, finallyBlock) ==
    [t |-> "try", try_block |-> tryBlock, catch_clauses |-> catches, finally_block |-> finallyBlock]

\* The failure classes: which kinds are HPLRuntimeError or one of its
\* subclasses (the class definitions live in utils/exceptions.py).
Kinds == {"Runtime", "Type", "Import"}
IsRuntimeError(kind) == kind \in {"Runtime", "Type"}
ClassName(kind) == "HPL" \o kind \o "Error"
ShortName(kind) == kind \o "Error"
ErrorTypeMap ==
    [n \in {"HPLError", "Error", "HPLRuntimeError", "RuntimeError", "HPLTypeError",
            "TypeError", "HPLImportError", "ImportError"} |->
        CASE n \in {"HPLError", "Error"} -> Kinds
          [] n \in {"HPLRuntimeError", "RuntimeError"} -> {"Runtime", "Type"}
          [] n \in {"HPLTypeError", "TypeError"} -> {"Type"}
          [] n \in {"HPLImportError", "ImportError"} -> {"Import"}]

\* matching by the class name alone, without the isinstance test
MatchesExactNameOnly(kind, etype) ==
    IF etype = NoType THEN TRUE
    ELSE IF etype = ClassName(kind) THEN TRUE
    ELSE IF etype = ShortName(kind) THEN TRUE
    ELSE FALSE

MatchesErrorType(kind, etype) ==
    IF etype = NoType THEN TRUE
    ELSE IF etype = ClassName(kind) THEN TRUE
    ELSE IF etype = ShortName(kind) THEN TRUE
    ELSE IF etype \in DOMAIN ErrorTypeMap THEN kind \in ErrorTypeMap[etype]
    ELSE FALSE

\* Execution state and results.
Start == [trace |-> <<>>, i |-> 0, e |-> Null]
Log(st, s) == [st EXCEPT !.trace = Append(@, s)]
Res(sig, val, st) == [sig |-> sig, val |-> val, trace |-> st.trace, i |-> st.i, e |-> st.e]
St(r) == [trace |-> r.trace, i |-> r.i, e |-> r.e]

RECURSIVE ExecStatement(_, _), ExecStatements(_, _, _), ForFrom(_, _, _), WhileLoop(_, _)
RECURSIVE FirstMatch(_, _, _)
RECURSIVE ExecFunctionCall(_, _)

ExecBlock(block, st) == ExecStatements(block.statements, 1, st)

ExecStatements(stmts, k, st) ==
    IF k > Len(stmts) THEN Res("normal", Null, st)
    ELSE LET r == ExecStatement(stmts[k], st)
         IN  IF r.sig = "normal" THEN ExecStatements(stmts, k + 1, St(r)) ELSE r

ExecIfDropsReturn(s, st) ==
    IF s.c THEN Res("normal", Null, St(ExecBlock(s.then_block, st)))
    ELSE Res("normal", Null, st)

ExecIf(s, st) ==
    IF s.c THEN ExecBlock(s.then_block, st)
    ELSE IF s.else_block.present THEN ExecBlock(s.else_block, st)
    ELSE Res("normal", Null, st)

ForFrom(s, k, st) ==
    IF k > s.n THEN Res("normal", Null, st)
    ELSE LET r == ExecBlock(s.body, st)
         IN  CASE r.sig = "return" -> r
               [] r.sig = "break" -> Res("normal", Null, St(r))
               [] r.sig = "continue" -> ForFrom(s, k + 1, St(r))
               [] r.sig = "normal" -> ForFrom(s, k + 1, St(r))
               [] OTHER -> r

ExecForIn(s, st) == ForFrom(s, 1, st)

WhileLoop(s, st) ==
    IF ~(st.i < s.n) THEN Res("normal", Null, st)
    ELSE LET r == ExecBlock(s.body, st)
         IN  CASE r.sig = "return" -> r
               [] r.sig = "break" -> Res("normal", Null, St(r))
               [] r.sig = "continue" -> WhileLoop(s, St(r))
               [] r.sig = "normal" -> WhileLoop(s, St(r))
               [] OTHER -> r

ExecWhile(s, st) == WhileLoop(s, st)

FirstMatch(catches, kind, k) ==
    IF k > Len(catches) THEN 0
    ELSE IF MatchesErrorType(kind, catches[k].error_type) THEN k
    ELSE FirstMatch(catches, kind, k + 1)

\* local_scope[catch.var_name] = error_obj (the clauses name their variable e)
BindCatchVar(st, kind) == [st EXCEPT !.e = kind]

\* What the try part and the catch clauses leave pending when control
\* reaches the finally clause.
TryAndCatchInterceptsSignals(s, st) ==
    LET t == ExecBlock(s.try_block, st)
        m == FirstMatch(s.catch_clauses, t.val, 1)
    IN  IF t.sig \in {"error", "break", "continue"}
        THEN IF m > 0 THEN ExecBlock(s.catch_clauses[m].block, BindCatchVar(St(t), t.val)) ELSE t
        ELSE t

TryAndCatch(s, st) ==
    LET t == ExecBlock(s.try_block, st)
        m == FirstMatch(s.catch_clauses, t.val, 1)
    IN  IF t.sig = "error" /\ IsRuntimeError(t.val)
        THEN IF m > 0 THEN ExecBlock(s.catch_clauses[m].block, BindCatchVar(St(t), t.val)) ELSE t
        ELSE t

ExecTryFinallyOnSuccess(s, st) ==
    LET pending == TryAndCatch(s, st)
    IN  IF s.finally_block.present /\ pending.sig \in {"normal", "return"}
        THEN LET f == ExecBlock(s.finally_block, St(pending))
             IN  IF f.sig = "normal" THEN Res(pending.sig, pending.val, St(f)) ELSE f
        ELSE pending

ExecTryCatch(s, st) ==
    LET pending == TryAndCatch(s, st)
    IN  IF s.finally_block.present
        THEN LET f == ExecBlock(s.finally_block, St(pending))
             IN  IF f.sig = "normal" THEN Res(pending.sig, pending.val, St(f)) ELSE f
        ELSE pending

\* _eval_function_call and execute_function for a call used as a statement:
\* the callee runs in a local scope of its own; its return value is unwrapped
\* and dropped; whatever it raises goes on into the calling block.
ExecFunctionCall(s, st) ==
    LET r == ExecBlock(s.body, [st EXCEPT !.i = 0, !.e = Null])
        back == [trace |-> r.trace, i |-> st.i, e |-> st.e]
    IN  IF r.sig \in {"return", "normal"} THEN Res("normal", Null, back)
        ELSE Res(r.sig, r.val, back)

ExecStatement(s, st) ==
    CASE s.t = "echo" -> Res("normal", Null, Log(st, s))
      [] s.t = "assign" -> Res("normal", Null, [st EXCEPT !.i = s.v])
      [] s.t = "increment" -> Res("normal", Null, [st EXCEPT !.i = @ + 1])
      [] s.t = "return" -> Res("return", s.v, Log(st, s))
      [] s.t = "break" -> Res("break", Null, Log(st, s))
      [] s.t = "continue" -> Res("continue", Null, Log(st, s))
      [] s.t = "throw" -> Res("error", "Runtime", Log(st, s))
      [] s.t = "expr" -> Res("error", s.kind, Log(st, s))
      [] s.t = "if" -> ExecIf(s, st)
      [] s.t = "for" -> ExecForIn(s, st)
      [] s.t = "while" -> ExecWhile(s, st)
      [] s.t = "try" -> ExecTryCatch(s, st)
      [] s.t = "call" -> ExecFunctionCall(s, st)

\* execute_function: the call boundary unwraps the return value; a body
\* that ends without return yields null; anything raised goes on to the caller.
ExecuteFunctionBody(body) ==
    LET r == ExecBlock(body, Start)
    IN  CASE r.sig = "return" -> [sig |-> "value", val |-> r.val, trace |-> r.trace, e |-> r.e]
          [] r.sig = "normal" -> [sig |-> "value", val |-> Null, trace |-> r.trace, e |-> r.e]
          [] OTHER -> [sig |-> r.sig, val |-> r.val, trace |-> r.trace, e |-> r.e]

(***************************************************************************)
(* The function bodies the evaluator is run on.  A body is described by    *)
(* what surrounds its try statement (ctx), the statement in the try part   *)
(* (x), the catch clauses (catch), the statement in the catch body (y) and *)
(* the finally clause (fin).                                               *)
(***************************************************************************)
LoopIters == 2

Contexts == {"plain", "if", "else", "for", "while", "nested", "whileInFor", "wrapped"}
TryParts == {"none", "return", "throw", "type", "import", "break", "continue"}
CatchParts == {"nocatch", "all", "type", "typeThenAll", "runtimeThenType", "importThenAll"}
CatchBodies == {"none", "return", "throw", "break", "continue"}
FinallyParts == {"nofinally", "plain", "return", "break", "continue", "throw"}

Programs ==
    [ctx : Contexts, x : TryParts, catch : CatchParts, y : CatchBodies, fin : FinallyParts]

TryBody(x) ==
    <<Echo("T1")>> \o
    (CASE x = "none" -> <<>>
       [] x = "return" -> <<Return("1", "TR")>>
       [] x = "throw" -> <<Throw("TT")>>
       [] x = "type" -> <<FailingExpr("Type", "TE")>>
       [] x = "import" -> <<FailingExpr("Import", "TI")>>
       [] x = "break" -> <<Break("TB")>>
       [] x = "continue" -> <<Continue("TC")>>) \o
    <<Echo("T2")>>

CatchBody(y) ==
    <<Echo("C1")>> \o
    (CASE y = "none" -> <<>>
       [] y = "return" -> <<Return("3", "CR")>>
       [] y = "throw" -> <<Throw("CT")>>
       [] y = "break" -> <<Break("CB")>>
       [] y = "continue" -> <<Continue("CC")>>) \o
    <<Echo("C2")>>

CatchClauses(p) ==
    CASE p.catch = "nocatch" -> <<>>
      [] p.catch = "all" -> <<CatchClause(NoType, Block(CatchBody(p.y)))>>
      [] p.catch = "type" -> <<CatchClause("TypeError", Block(CatchBody(p.y)))>>
      [] p.catch = "typeThenAll" ->
            <<CatchClause("HPLTypeError", Block(<<Echo("D1")>>)),
              CatchClause(NoType, Block(CatchBody(p.y)))>>
      [] p.catch = "runtimeThenType" ->
            <<CatchClause("RuntimeError", Block(<<Echo("D1")>>)),
              CatchClause("TypeError", Block(CatchBody(p.y)))>>
      [] p.catch = "importThenAll" ->
            <<CatchClause("ImportError", Block(<<Echo("D1")>>)),
              CatchClause(NoType, Block(CatchBody(p.y)))>>

FinallyBlock(fin) ==
    CASE fin = "nofinally" -> NoBlock
      [] fin = "plain" -> Block(<<Echo("F1")>>)
      [] fin = "return" -> Block(<<Echo("F1"), Return("2", "FR")>>)
      [] fin = "break" -> Block(<<Echo("F1"), Break("FB")>>)
      [] fin = "continue" -> Block(<<Echo("F1"), Continue("FC")>>)
      [] fin = "throw" -> Block(<<Echo("F1"), Throw("FT")>>)

TryOf(p) == TryCatch(Block(TryBody(p.x)), CatchClauses(p), FinallyBlock(p.fin))

Body(p) ==
    LET try == TryOf(p)
        inner == <<Echo("L1"), try, Echo("L2")>>
    IN  CASE p.ctx = "plain" -> Block(<<Echo("A"), try, Echo("Z")>>)
          [] p.ctx = "if" ->
                Block(<<Echo("A"), If(TRUE, Block(<<try, Echo("I2")>>), NoBlock), Echo("Z")>>)
          [] p.ctx = "else" ->
                Block(<<Echo("A"), If(FALSE, Block(<<Echo("N")>>), Block(<<try, Echo("I2")>>)),
                        Echo("Z")>>)
          [] p.ctx = "for" -> Block(<<ForIn(LoopIters, Block(inner)), Echo("Z")>>)
          [] p.ctx = "while" ->
                Block(<<Assign(0), While(LoopIters, Block(<<Increment>> \o inner)), Echo("Z")>>)
          [] p.ctx = "nested" ->
                Block(<<ForIn(LoopIters,
                              Block(<<Echo("O1"),
                                      ForIn(LoopIters,
                                            Block(<<Echo("L1"),
                                                    If(TRUE, Block(<<try>>), NoBlock),
                                                    Echo("L2")>>)),
                                      Echo("O2")>>)),
                        Echo("Z")>>)
          [] p.ctx = "whileInFor" ->
                Block(<<ForIn(LoopIters,
                              Block(<<Echo("O1"), Assign(0),
                                      While(LoopIters, Block(<<Increment>> \o inner)),
                                      Echo("O2")>>)),
                        Echo("Z")>>)
          [] p.ctx = "wrapped" ->
                Block(<<ForIn(LoopIters,
                              Block(<<Echo("L1"),
                                      TryCatch(Block(<<try, Echo("W2")>>),
                                               <<CatchClause(NoType, Block(<<Echo("WC")>>))>>,
                                               Block(<<Echo("WF")>>)),
                                      Echo("L2")>>)),
                        Echo("Z")>>)

\* A call of the function: execute_function runs the body to its end.
ExecuteFunction ==
    /\ prog \in Programs
    /\ outcome = NoOutcome
    /\ outcome' = ExecuteFunctionBody(Body(prog))
    /\ UNCHANGED <<prog, cacheVars, loaderVars, restVars, objVars, cloVars>>

InitEval ==
    /\ RestIdle
    /\ prog \in Programs
    /\ outcome = NoOutcome
    /\ cache = <<>> /\ accessLog = <<>>
    /\ lastOp = [op |-> "none", key |-> <<"none">>, hit |-> FALSE]
    /\ LoaderIdle
    /\ ObjIdle /\ CloIdle

NextEval == ExecuteFunction

SpecEval == InitEval /\ [][NextEval]_vars

(***************************************************************************)
(* Reading the list of executed statements.                                *)
(***************************************************************************)
Ran == outcome.sig # "none"
LabelsOf(trace) == [k \in DOMAIN trace |-> trace[k].l]
Count(trace, l) == Cardinality({k \in DOMAIN trace : trace[k].l = l})
FinallyLabels == {"F1", "FR", "FB", "FC", "FT", "WF"}
LoopContexts == {"for", "while", "nested", "whileInFor", "wrapped"}
ExitLabel(c) == IF c \in {"nested", "whileInFor"} THEN "O2" ELSE "Z"

\* The first statement after position k that is not part of a finally block.
NextAfter(trace, k) ==
    LET later == {j \in DOMAIN trace : j > k /\ trace[j].l \notin FinallyLabels}
    IN  IF later = {} THEN "end"
        ELSE trace[CHOOSE j \in later : \A h \in later : j <= h].l

\* A finally block entered right after position k ends in a return, break,
\* continue or throw of its own.
FinallyTakesOver(trace, k) ==
    \E j \in DOMAIN trace :
        /\ j > k
        /\ \A h \in (k + 1)..j : trace[h].l \in FinallyLabels
        /\ trace[j].t # "echo"

\* Iterations of the innermost loop begun up to position k.
IterationsBefore(trace, k) ==
    LET outer == {j \in 1..k : trace[j].l = "O1"}
        from == IF outer = {} THEN 0 ELSE CHOOSE j \in outer : \A h \in outer : h <= j
    IN  Cardinality({j \in (from + 1)..k : trace[j].l = "L1"})

\* Every "T1" (the try statement is entered) is followed by exactly one
\* "F1" (its finally block starts) before the next "T1" or the end.
FinallyOncePerTry(trace) ==
    /\ Count(trace, "F1") = Count(trace, "T1")
    /\ \A k \in DOMAIN trace :
          trace[k].l = "T1" =>
              LET nexts == {j \in DOMAIN trace : j > k /\ trace[j].l = "T1"}
                  upto == IF nexts = {} THEN Len(trace)
                          ELSE CHOOSE j \in nexts : \A h \in nexts : j <= h
              IN  Cardinality({j \in (k + 1)..upto : trace[j].l = "F1"}) = 1

\* C4: in a try/catch/finally statement the finally block runs exactly once
\* whatever the try and catch parts did (completed, returned, failed with a
\* caught or an uncaught failure, failed inside the catch body, or let a
\* break or continue through), and a return inside finally replaces the
\* pending return value or failure: the call yields the value returned by
\* the finally block.
C4_FinallyOnce ==
    Ran =>
        /\ prog.fin # "nofinally" => FinallyOncePerTry(outcome.trace)
        /\ prog.fin = "return" => outcome.sig = "value" /\ outcome.val = "2"

\* try { throw "boom" } catch (e) { return 1 } finally { return 2 } yields 2
\* (the catch body returns "3" in the model, the finally block "2").
C4_Witness ==
    /\ Ran
    /\ prog = [ctx |-> "plain", x |-> "throw", catch |-> "all", y |-> "return", fin |-> "return"]
    /\ LabelsOf(outcome.trace) = <<"A", "T1", "TT", "C1", "CR", "F1", "FR">>
    /\ outcome.sig = "value" /\ outcome.val = "2"

\* C5 as stated: after any executed return only statements of finally
\* blocks run, and the call yields the value of that return.
C5_ReturnAlwaysWins ==
    Ran =>
        \A k \in DOMAIN outcome.trace :
            outcome.trace[k].t = "return" =>
                /\ \A j \in DOMAIN outcome.trace :
                      j > k => outcome.trace[j].l \in FinallyLabels
                /\ outcome.sig = "value" /\ outcome.val = outcome.trace[k].v

\* C5: a return executed at any depth inside blocks, if, for, while and try
\* statements stops every remaining statement of the function body apart
\* from the enclosing finally blocks, and the call yields the returned
\* value, provided no finally block that runs while the return is pending
\* ends in a return, break, continue or throw of its own.
C5_ReturnStops ==
    Ran =>
        \A k \in DOMAIN outcome.trace :
            (outcome.trace[k].t = "return" /\ ~FinallyTakesOver(outcome.trace, k)) =>
                /\ \A j \in DOMAIN outcome.trace :
                      j > k => outcome.trace[j].l \in FinallyLabels
                /\ outcome.sig = "value" /\ outcome.val = outcome.trace[k].v

C5_Witness ==
    /\ Ran
    /\ prog.ctx = "nested" /\ prog.x = "return" /\ prog.fin = "plain"
    /\ LabelsOf(outcome.trace) = <<"O1", "L1", "T1", "TR", "F1">>
    /\ outcome.sig = "value" /\ outcome.val = "1"

\* What a break or continue executed at position k of a loop body must lead
\* to: the finally block of the try statement it leaves runs next, no catch
\* body and no later statement of the iteration runs, break goes on after
\* the innermost loop, continue goes on with its next iteration (or after
\* the loop when that was the last one).
SignalHandledByLoop(trace, k) ==
    /\ (trace[k].l \in {"TB", "TC", "CB", "CC"} /\ prog.fin # "nofinally") =>
            (k < Len(trace) /\ trace[k + 1].l = "F1")
    /\ trace[k].t = "break" => NextAfter(trace, k) = ExitLabel(prog.ctx)
    /\ trace[k].t = "continue" =>
            NextAfter(trace, k) = IF IterationsBefore(trace, k) < LoopIters
                                  THEN "L1" ELSE ExitLabel(prog.ctx)

\* C6 as stated: every executed break or continue is handled that way.
C6_SignalAlwaysReachesLoop ==
    (Ran /\ prog.ctx \in LoopContexts) =>
        \A k \in DOMAIN outcome.trace :
            outcome.trace[k].t \in {"break", "continue"} =>
                SignalHandledByLoop(outcome.trace, k)

\* C6: a break or continue is handled only by the nearest enclosing loop: it
\* passes through if and try statements (no catch clause, catch-all
\* included, intercepts it, the enclosing finally runs), break ends exactly
\* that loop, continue proceeds to its next iteration and the outer loop
\* runs all its iterations, provided no finally block that runs while the
\* signal is pending ends in a return, break, continue or throw of its own.
C6_SignalReachesLoop ==
    (Ran /\ prog.ctx \in LoopContexts) =>
        \A k \in DOMAIN outcome.trace :
            (outcome.trace[k].t \in {"break", "continue"}
                /\ ~FinallyTakesOver(outcome.trace, k)) =>
                /\ SignalHandledByLoop(outcome.trace, k)
                /\ prog.ctx \in {"nested", "whileInFor"} =>
                        Count(outcome.trace, "O1") = LoopIters

C6_Witness ==
    /\ Ran
    /\ prog = [ctx |-> "nested", x |-> "break", catch |-> "all", y |-> "none", fin |-> "plain"]
    /\ SubSeq(LabelsOf(outcome.trace), 1, 6) = <<"O1", "L1", "T1", "TB", "F1", "O2">>
    /\ Count(outcome.trace, "TB") = LoopIters /\ Count(outcome.trace, "O2") = LoopIters
    /\ Count(outcome.trace, "C1") = 0 /\ Count(outcome.trace, "L2") = 0
    /\ outcome.trace[Len(outcome.trace)].l = "Z"
    /\ outcome.sig = "value"

(***************************************************************************)
(* run(): the main function is executed and its value dropped.  The main   *)
(* function holds the try statement itself, or calls a function g that     *)
(* holds it, directly or from the body of a for loop.                      *)
(***************************************************************************)
RunContexts == {"main", "call", "loopCall"}

RunPrograms ==
    [ctx : RunContexts, x : TryParts, catch : CatchParts, y : CatchBodies, fin : FinallyParts]

\* the body of g
CalleeBody(p) == Block(<<Echo("G1"), TryOf(p), Echo("G2")>>)

MainBody(p) ==
    CASE p.ctx = "main" -> Block(<<Echo("A"), TryOf(p), Echo("Z")>>)
      [] p.ctx = "call" -> Block(<<Echo("A"), FunctionCall(CalleeBody(p)), Echo("Z")>>)
      [] p.ctx = "loopCall" ->
            Block(<<ForIn(LoopIters,
                          Block(<<Echo("K1"), FunctionCall(CalleeBody(p)), Echo("K2")>>)),
                    Echo("Z")>>)

\* run: execute_function(main_func, {}, 'main'), the result is not used
Run ==
    /\ prog \in RunPrograms
    /\ outcome = NoOutcome
    /\ LET r == ExecuteFunctionBody(MainBody(prog))
       IN  outcome' = IF r.sig = "value" THEN [r EXCEPT !.sig = "done", !.val = Null] ELSE r
    /\ UNCHANGED <<prog, cacheVars, loaderVars, restVars, objVars, cloVars>>

InitRun ==
    /\ RestIdle
    /\ prog \in RunPrograms
    /\ outcome = NoOutcome
    /\ cache = <<>> /\ accessLog = <<>>
    /\ lastOp = [op |-> "none", key |-> <<"none">>, hit |-> FALSE]
    /\ LoaderIdle
    /\ ObjIdle /\ CloIdle

NextRun == Run

SpecRun == InitRun /\ [][NextRun]_vars

\* C16: run() never ends with an internal control-flow signal: it ends
\* normally or with a failure of a user kind, also when break or continue is
\* executed outside any loop or in a function called from a loop body; and
\* a loop whose body calls a function runs all its iterations unless the
\* run fails: no break executed in the called function ends it.
C16_NoSignalSurfaces ==
    Ran => /\ outcome.sig \in {"done", "error"}
           /\ outcome.sig = "error" => outcome.val \in Kinds
           /\ (prog.ctx = "loopCall" /\ outcome.sig = "done")
                => Count(outcome.trace, "K1") = LoopIters

\* the kind of the failure the try part raises, if it raises one
RaisedKind(p) ==
    CASE p.x = "throw" -> "Runtime"
      [] p.x = "type" -> "Type"
      [] p.x = "import" -> "Import"
      [] OTHER -> "none"

\* the first statement of the k-th catch clause of the try statement
ClauseLabel(p, k) == CatchClauses(p)[k].block.statements[1].l

ClauseRan(p, k) == \E j \in DOMAIN outcome.trace : outcome.trace[j].l = ClauseLabel(p, k)

\* the kind a clause names, written with or without the HPL prefix
NamedKind(etype) ==
    CASE etype \in {"RuntimeError", "HPLRuntimeError"} -> "Runtime"
      [] etype \in {"TypeError", "HPLTypeError"} -> "Type"
      [] etype \in {"ImportError", "HPLImportError"} -> "Import"

\* a kind and the kinds that are special cases of it
KindAndSubKinds(kind) == IF kind = "Runtime" THEN {"Runtime", "Type"} ELSE {kind}

FirstClause(p, ok(_)) ==
    LET hits == {k \in DOMAIN CatchClauses(p) : ok(CatchClauses(p)[k].error_type)}
    IN  IF hits = {} THEN 0 ELSE CHOOSE k \in hits : \A h \in hits : k <= h

\* flat matching: a catch-all, or the clause names exactly the failure's kind
FlatClause(p) ==
    LET ok(etype) == etype = NoType \/ NamedKind(etype) = RaisedKind(p)
    IN  IF RaisedKind(p) = "none" THEN 0 ELSE FirstClause(p, ok)

\* matching along the class hierarchy, for the failures a try statement handles
HierarchyClause(p) ==
    LET ok(etype) == etype = NoType \/ RaisedKind(p) \in KindAndSubKinds(NamedKind(etype))
    IN  IF RaisedKind(p) \in KindAndSubKinds("Runtime") THEN FirstClause(p, ok) ELSE 0

MaxObjects == 1

None == 0
Unbound == -1
NoClass == "none"
ClassNames == {"A", "B", "C"}
ParentOf == [c \in ClassNames |-> CASE c = "A" -> NoClass [] c = "B" -> "A" [] c = "C" -> "B"]
ArgLists == {<<1, 2>>, <<2, 1>>, <<1>>}

\* Statements of method bodies: this.attr = var, and a call
\* this.parent...m(x, y) whose receiver is `this` followed by `chain`.
SetAttr(attr, var) == [op |-> "set", attr |-> attr, var |-> var]
Call(chain, m) == [op |-> "call", chain |-> chain, method |-> m]

Params == <<"x", "y">>

\* class A { __init__: this.a = x;  m: this.am = y;  tag: this.t = x }
\* class B (parent A) { init: this.tag(x, y); this.parent.init(x, y); this.b = x
\*                      m: this.parent.m(x, y); this.bm = y }
\* class C (parent B) { init: this.parent.init(x, y); this.c = x
\*                      g: this.parent.parent.m(x, y)
\*                      h: this.parent.tag(x, y) }
Methods ==
    [c \in ClassNames |->
        CASE c = "A" -> ("__init__" :> <<SetAttr("a", "x")>>
                         @@ "m" :> <<SetAttr("am", "y")>>
                         @@ "tag" :> <<SetAttr("t", "x")>>)
          [] c = "B" -> ("init" :> <<Call(<<>>, "tag"), Call(<<"parent">>, "init"), SetAttr("b", "x")>>
                         @@ "m" :> <<Call(<<"parent">>, "m"), SetAttr("bm", "y")>>)
          [] c = "C" -> ("init" :> <<Call(<<"parent">>, "init"), SetAttr("c", "x")>>
                         @@ "g" :> <<Call(<<"parent", "parent">>, "m")>>
                         @@ "h" :> <<Call(<<"parent">>, "tag")>>)]
MethodNames == {"init", "m", "g", "h", "tag"}

AltName(m) == IF m = "init" THEN "__init__" ELSE IF m = "__init__" THEN "init" ELSE "noalt"

RECURSIVE FindMethodOwnerClass(_, _)
FindMethodOwnerClass(c, m) ==
    IF m \in DOMAIN Methods[c] \/ AltName(m) \in DOMAIN Methods[c] THEN c
    ELSE IF ParentOf[c] # NoClass THEN FindMethodOwnerClass(ParentOf[c], m)
    ELSE NoClass

\* The name under which class c itself holds method m (m or its alias).
OwnName(c, m) == IF m \in DOMAIN Methods[c] THEN m ELSE AltName(m)

\* method_scope = {param: args[i] ...}; method_scope['this'] = ...
Bind(args, this) ==
    [n \in {"this", "x", "y"} |->
        IF n = "this" THEN this
        ELSE LET i == IF n = "x" THEN 1 ELSE 2
             IN  IF i <= Len(args) THEN args[i] ELSE Unbound]

AttrNames == {"a", "am", "t", "b", "bm", "c"}
NoAttrs == [a \in AttrNames |-> Unbound]
NewObject(c, via) == [cls |-> c, attrs |-> NoAttrs, via |-> via]

\* The running state of a call: bodies entered so far, the objects'
\* attributes, the failure raised (if any).
RunStart(objs) == [log |-> <<>>, attrs |-> [o \in DOMAIN objs |-> objs[o].attrs], err |-> "none"]
Failed(st, e) == [st EXCEPT !.err = e]
Entry == [how |-> "entry", cls |-> NoClass, this |-> None, x |-> Unbound, y |-> Unbound]
From(how, c, scope) ==
    [how |-> how, cls |-> c, this |-> scope["this"], x |-> scope["x"], y |-> scope["y"]]
Entered(st, c, m, scope, by) ==
    [st EXCEPT !.log = Append(@, [cls |-> c, method |-> m, this |-> scope["this"],
                                  x |-> scope["x"], y |-> scope["y"], by |-> by])]

\* _lookup_variable: a name that is in neither the local scope nor the
\* global scope (no global is named x or y) is a Name failure.
IsBound(scope, var) == scope[var] # Unbound

RECURSIVE RunOps(_, _, _, _, _, _, _, _)

\* execute_function on the body of method m held by class c.
ExecuteMethod(c, m, scope, cobj, ccls, objs, st, by) ==
    RunOps(c, Methods[c][m], 1, scope, cobj, ccls, objs, Entered(st, c, m, scope, by))

\* _call_method with a class as receiver (an explicit parent call).
CallMethodOnClass(p, m, args, cobj, objs, st, by) ==
    IF m \in DOMAIN Methods[p] \/ (m = "init" /\ "__init__" \in DOMAIN Methods[p])
    THEN ExecuteMethod(p, OwnName(p, m), Bind(args, cobj), cobj, p, objs, st, by)
    ELSE Failed(st, "Attribute")

\* _call_method with an object as receiver.
CallMethodOnObject(o, m, args, objs, st, by) ==
    LET owner == FindMethodOwnerClass(objs[o].cls, m)
    IN  IF owner = NoClass THEN Failed(st, "Attribute")
        ELSE ExecuteMethod(owner, OwnName(owner, m), Bind(args, o), o, owner, objs, st, by)

\* The receiver of this.parent.parent...: `this` from the local scope, then
\* one member access per element of the chain (_eval_method_call).
RECURSIVE EvalChain(_, _, _, _, _)
EvalChain(chain, k, scope, ccls, objs) ==
    IF k = 0 THEN
        IF scope["this"] = None THEN [kind |-> "none"] ELSE [kind |-> "obj", obj |-> scope["this"]]
    ELSE
        LET r == EvalChain(chain, k - 1, scope, ccls, objs)
        IN  CASE r.kind = "err" -> r
              [] r.kind = "none" -> [kind |-> "err", err |-> "Type"]
              [] r.kind = "obj" ->
                    LET reference_class == IF ccls # NoClass THEN ccls ELSE objs[r.obj].cls
                    IN  IF ParentOf[reference_class] # NoClass
                        THEN [kind |-> "class", cls |-> ParentOf[reference_class]]
                        ELSE [kind |-> "err", err |-> "Attribute"]
              [] r.kind = "class" ->
                    \* _call_method(class, 'parent', []): no class has a method of that name
                    [kind |-> "err", err |-> "Attribute"]

RunOps(c, ops, k, scope, cobj, ccls, objs, st) ==
    IF st.err # "none" \/ k > Len(ops) THEN st
    ELSE
        LET s == ops[k]
            target == IF scope["this"] # None THEN scope["this"] ELSE cobj
            r == EvalChain(s.chain, Len(s.chain), scope, ccls, objs)
            args == <<scope["x"], scope["y"]>>
            next ==
                CASE s.op = "set" ->
                        IF ~IsBound(scope, s.var) THEN Failed(st, "Name")
                        ELSE IF target = None THEN Failed(st, "Type")
                        ELSE [st EXCEPT !.attrs[target][s.attr] = scope[s.var]]
                  [] s.op = "call" ->
                        CASE r.kind = "err" -> Failed(st, r.err)
                          [] r.kind = "none" -> Failed(st, "Type")
                          [] \E i \in DOMAIN Params : ~IsBound(scope, Params[i]) ->
                                Failed(st, "Name")
                          [] r.kind = "obj" ->
                                CallMethodOnObject(r.obj, s.method, args, objs, st,
                                                   From("object", c, scope))
                          [] r.kind = "class" ->
                                CallMethodOnClass(r.cls, s.method, args, cobj, objs, st,
                                                  From("parent", c, scope))
        IN  RunOps(c, ops, k + 1, scope, cobj, ccls, objs, next)

WithAttrs(objs, st) == [o \in DOMAIN objs |-> [objs[o] EXCEPT !.attrs = st.attrs[o]]]

\* instantiate_object: the constructor is looked up along the parent chain
\* and called as a method of the new object.
InstantiateObject(c, args) ==
    /\ Len(objects) < MaxObjects
    /\ LET o == Len(objects) + 1
           objs == Append(objects, NewObject(c, "instantiate"))
           st == IF FindMethodOwnerClass(c, "init") = NoClass THEN RunStart(objs)
                 ELSE CallMethodOnObject(o, "init", args, objs, RunStart(objs), Entry)
       IN  /\ objects' = IF st.err = "none" THEN WithAttrs(objs, st) ELSE objects
           /\ callLog' = st.log
           /\ lastCall' = [op |-> "instantiate", cls |-> c, obj |-> o, method |-> "init",
                           args |-> args, err |-> st.err]
    /\ UNCHANGED <<cacheVars, loaderVars, restVars, evalVars, cloVars>>

\* The constructor an imported module offers for its class c: the class's
\* own init (or __init__) is executed directly on the new object, in the
\* module's evaluator, which is not inside any method call.
ModuleConstructor(c, args) ==
    /\ Len(objects) < MaxObjects
    /\ LET o == Len(objects) + 1
           objs == Append(objects, NewObject(c, "module"))
           name == IF "init" \in DOMAIN Methods[c] THEN "init"
                   ELSE IF "__init__" \in DOMAIN Methods[c] THEN "__init__" ELSE "none"
           st == IF name = "none" THEN RunStart(objs)
                 ELSE IF Len(args) # Len(Params) THEN Failed(RunStart(objs), "Value")
                 ELSE ExecuteMethod(c, name, Bind(args, o), None, NoClass, objs,
                                    RunStart(objs), Entry)
       IN  /\ objects' = IF st.err = "none" THEN WithAttrs(objs, st) ELSE objects
           /\ callLog' = st.log
           /\ lastCall' = [op |-> "module", cls |-> c, obj |-> o, method |-> "init",
                           args |-> args, err |-> st.err]
    /\ UNCHANGED <<cacheVars, loaderVars, restVars, evalVars, cloVars>>

\* o.m(x, y) called from top-level code on an object of the program's own
\* evaluator.
CallMethod(o, m, args) ==
    /\ o \in DOMAIN objects
    /\ objects[o].via = "instantiate"
    /\ LET st == CallMethodOnObject(o, m, args, objects, RunStart(objects), Entry)
       IN  /\ objects' = WithAttrs(objects, st)
           /\ callLog' = st.log
           /\ lastCall' = [op |-> "call", cls |-> objects[o].cls, obj |-> o, method |-> m,
                           args |-> args, err |-> st.err]
    /\ UNCHANGED <<cacheVars, loaderVars, restVars, evalVars, cloVars>>

CacheIdle ==
    /\ cache = <<>> /\ accessLog = <<>>
    /\ lastOp = [op |-> "none", key |-> <<"none">>, hit |-> FALSE]

InitObj ==
    /\ RestIdle
    /\ ObjIdle
    /\ CloIdle
    /\ EvalIdle
    /\ CacheIdle
    /\ LoaderIdle

NextObj ==
    \/ \E c \in ClassNames, args \in ArgLists : InstantiateObject(c, args)
    \/ \E c \in ClassNames, args \in ArgLists : ModuleConstructor(c, args)
    \/ \E o \in 1..MaxObjects, m \in MethodNames, args \in ArgLists : CallMethod(o, m, args)

SpecObj == InitObj /\ [][NextObj]_vars

\* The bodies entered through an explicit parent call.
ParentCalls == {k \in DOMAIN callLog : callLog[k].by.how = "parent"}

\* C7: while a method of class K runs on object o, this.parent.m(args) runs
\* the m of K's parent with this bound to o and the arguments in order; and
\* constructing a C (chain C -> B -> A) runs C.init, B.init and A.init once
\* each, all on the new instance.
C7_ParentCallOnSameObject ==
    /\ \A k \in ParentCalls :
          LET r == callLog[k]
          IN  r.by.this # None =>
                /\ r.cls = ParentOf[r.by.cls]
                /\ r.this = r.by.this
                /\ r.x = r.by.x /\ r.y = r.by.y
    /\ (/\ lastCall.op \in {"instantiate", "module"} /\ lastCall.cls = "C"
        /\ Len(lastCall.args) = Len(Params)) =>
          /\ lastCall.err = "none"
          /\ \A c \in ClassNames :
                Cardinality({k \in DOMAIN callLog :
                    /\ callLog[k].cls = c
                    /\ callLog[k].method \in {"init", "__init__"}
                    /\ callLog[k].this = lastCall.obj}) = 1

\* C8: in the chain C -> B -> A, this.parent.parent.m(args) inside a method
\* of C runs A's m with this bound to the C instance.
C8_GrandparentCall ==
    (/\ lastCall.op = "call" /\ lastCall.method = "g" /\ lastCall.cls = "C"
     /\ Len(lastCall.args) = Len(Params)) =>
        /\ lastCall.err = "none"
        /\ \E k \in DOMAIN callLog :
              /\ callLog[k].cls = "A" /\ callLog[k].method = "m"
              /\ callLog[k].this = lastCall.obj
              /\ <<callLog[k].x, callLog[k].y>> = lastCall.args

\* The parameters a call with the argument list args leaves unsupplied.
Unsupplied(args) == {Params[i] : i \in (Len(args) + 1)..Len(Params)}

\* C18: a constructor or method call with fewer arguments than declared
\* parameters binds each unsupplied trailing parameter to null in every body
\* it enters, and no read of such a parameter is a Name failure.
C18_UnsuppliedParamsAreNull ==
    (lastCall.op \in {"instantiate", "call"} /\ Len(lastCall.args) < Len(Params)) =>
        /\ lastCall.err # "Name"
        /\ \A k \in DOMAIN callLog :
              \A p \in Unsupplied(lastCall.args) : callLog[k][p] = None

\* The top-level call ran the body of method m held by class c on its
\* receiver.
RanBody(c, m) ==
    \E k \in DOMAIN callLog :
        /\ callLog[k].cls = c /\ callLog[k].method = m
        /\ callLog[k].this = lastCall.obj

\* C19: o.m(...) runs the nearest definition of m up the chain from o's
\* class, and this.parent.m(...) runs the nearest definition of m up the
\* chain from the parent class: B's m reaches A's m through this.parent.m,
\* and C's h reaches A's tag through this.parent.tag although B, the class
\* addressed, has no tag of its own.
C19_ResolutionWalksParentChain ==
    (lastCall.op = "call" /\ Len(lastCall.args) = Len(Params)) =>
        LET owner == FindMethodOwnerClass(lastCall.cls, lastCall.method)
        IN  /\ owner # NoClass =>
                  /\ callLog # <<>>
                  /\ callLog[1].cls = owner
                  /\ callLog[1].method = OwnName(owner, lastCall.method)
            /\ (lastCall.method = "m" /\ owner = "B") =>
                  (lastCall.err = "none" /\ RanBody("A", "m"))
            /\ (lastCall.method = "h" /\ owner = "C") =>
                  (lastCall.err = "none" /\ RanBody("A", "tag"))

(***************************************************************************)
(* Closures (HPLArrowFunction, core/evaluator.py).  One function frame     *)
(* (the defining frame) executes statements one at a time: assignments to  *)
(* its local x, creation of a closure stored in f, calls of the closure;   *)
(* it may return the closure to its caller, which then calls it.  Scopes   *)
(* are dictionaries held in `scopes`: the defining frame's local scope is  *)
(* scopes[1], the scope captured by the k-th closure is scopes[k + 1],     *)
(* unless the closure shares another dictionary.  Values are tagged;       *)
(* a mapping value is a reference to the one mapping object in `heap`.     *)
(***************************************************************************)
MaxValue == 2
MaxClosures == 2
MaxSteps == 4

IntValue(n) == [k |-> "int", v |-> n]
Clo(i) == [k |-> "clo", v |-> i]
DictRef == [k |-> "dict", v |-> 0]
NoneValue == [k |-> "none", v |-> 0]
NameError == [k |-> "NameError", v |-> 0]
TypeError == [k |-> "TypeError", v |-> 0]

DefiningScope == 1
CallerNames == {"h", "x"}
LocalNames == {"f", "x"}

\* Statements of closure bodies.
AssignLit(var, n) == [op |-> "assign", var |-> var, n |-> n]
Incr(var) == [op |-> "incr", var |-> var]
SetKey(n) == [op |-> "setkey", n |-> n]
ReturnVar(var) == [op |-> "return", var |-> var]

\* () => { return x }            (x) => { return x }
\* () => { x = 2; x++; return x }
\* () => { g++; d.k = 2; return x }
ArrowFunctions ==
    { [params |-> <<>>, body |-> <<ReturnVar("x")>>],
      [params |-> <<"x">>, body |-> <<ReturnVar("x")>>],
      [params |-> <<>>, body |-> <<AssignLit("x", 2), Incr("x"), ReturnVar("x")>>],
      [params |-> <<>>, body |-> <<Incr("g"), SetKey(2), ReturnVar("x")>>] }

\* closure_scope.copy(): the closure gets a dictionary of its own (fresh),
\* not the dictionary it was created in (local).
CaptureScopeShared(local, fresh) == local

CaptureScope(local, fresh) == fresh

\* _lookup_variable: the local scope, then the global scope.
LookupVariable(n, fs, glob) ==
    IF fs[n].k # "undef" THEN fs[n]
    ELSE IF glob[n].k # "undef" THEN glob[n]
    ELSE NameError

\* A call in progress: the function scope, the global scope, the mapping
\* object, the value returned or the failure raised.
RECURSIVE ExecBody(_, _, _)
ExecBody(ops, k, st) ==
    IF k > Len(ops) \/ st.done THEN st
    ELSE
        LET s == ops[k]
            cur == LookupVariable(s.var, st.fs, st.glob)
            d == LookupVariable("d", st.fs, st.glob)
            fail(e) == [st EXCEPT !.done = TRUE, !.result = e]
            next ==
                CASE s.op = "assign" -> [st EXCEPT !.fs[s.var] = IntValue(s.n)]
                  [] s.op = "incr" ->
                        IF cur.k = "NameError" THEN fail(NameError)
                        ELSE IF cur.k # "int" THEN fail(TypeError)
                        ELSE IF st.fs[s.var].k # "undef"
                             THEN [st EXCEPT !.fs[s.var] = IntValue(cur.v + 1)]
                        ELSE IF st.glob[s.var].k # "undef"
                             THEN [st EXCEPT !.glob[s.var] = IntValue(cur.v + 1)]
                        ELSE [st EXCEPT !.fs[s.var] = IntValue(cur.v + 1)]
                  [] s.op = "setkey" ->
                        IF d.k = "NameError" THEN fail(NameError)
                        ELSE IF d.k # "dict" THEN fail(TypeError)
                        ELSE [st EXCEPT !.heap = s.n]
                  [] s.op = "return" ->
                        [st EXCEPT !.done = TRUE, !.result = cur]
        IN  ExecBody(ops, k + 1, next)

\* HPLArrowFunction.call: the function scope is a copy of the captured
\* scope, with the parameters and the name the closure was called by.
FuncScope(c, captured, args, func_name) ==
    [n \in VarNames |->
        IF n = func_name THEN Clo(c)
        ELSE IF \E i \in DOMAIN closures[c].params : closures[c].params[i] = n
             THEN LET i == CHOOSE i \in DOMAIN closures[c].params : closures[c].params[i] = n
                  IN  IF i <= Len(args) THEN args[i] ELSE NoneValue
        ELSE captured[n]]

\* The dictionaries after a call: the function scope was a copy, so no
\* dictionary of `scopes` has changed.
AfterCallInPlace(scs, id, final) == [scs EXCEPT ![id] = final]

AfterCall(scs, id, final) == scs

Stepping == steps < MaxSteps /\ steps' = steps + 1
InFrame == Stepping /\ ~returned

\* x = <literal>
AssignLiteral(n) ==
    /\ InFrame
    /\ scopes' = [scopes EXCEPT ![DefiningScope]["x"] = IntValue(n)]
    /\ UNCHANGED <<closures, globals, heap, returned, arrowCall>>
    /\ UNCHANGED <<cacheVars, loaderVars, restVars, evalVars, objVars>>

\* x = f
AssignVariable ==
    /\ InFrame
    /\ scopes[DefiningScope]["f"].k # "undef"
    /\ scopes' = [scopes EXCEPT ![DefiningScope]["x"] = scopes[DefiningScope]["f"]]
    /\ UNCHANGED <<closures, globals, heap, returned, arrowCall>>
    /\ UNCHANGED <<cacheVars, loaderVars, restVars, evalVars, objVars>>

\* x++
IncrementLocal ==
    /\ InFrame
    /\ scopes[DefiningScope]["x"].k = "int"
    /\ scopes' = [scopes EXCEPT ![DefiningScope]["x"] = IntValue(@.v + 1)]
    /\ UNCHANGED <<closures, globals, heap, returned, arrowCall>>
    /\ UNCHANGED <<cacheVars, loaderVars, restVars, evalVars, objVars>>

\* d = {"k": 1}
AssignDict ==
    /\ InFrame
    /\ scopes[DefiningScope]["d"].k = "undef"
    /\ scopes' = [scopes EXCEPT ![DefiningScope]["d"] = DictRef]
    /\ heap' = 1
    /\ UNCHANGED <<closures, globals, returned, arrowCall>>
    /\ UNCHANGED <<cacheVars, loaderVars, restVars, evalVars, objVars>>

\* f = (params) => { body }: _eval_arrow_function builds an
\* HPLArrowFunction from the local scope, the assignment binds it to f.
CreateClosure(fn) ==
    /\ InFrame
    /\ Len(closures) < MaxClosures
    /\ LET c == Len(closures) + 1
           fresh == Len(scopes) + 1
       IN  /\ closures' = Append(closures,
                    [params |-> fn.params, body |-> fn.body,
                     closure_scope |-> CaptureScope(DefiningScope, fresh),
                     created |-> scopes[DefiningScope]])
           /\ scopes' = [Append(scopes, scopes[DefiningScope])
                            EXCEPT ![DefiningScope]["f"] = Clo(c)]
    /\ UNCHANGED <<globals, heap, returned, arrowCall>>
    /\ UNCHANGED <<cacheVars, loaderVars, restVars, evalVars, objVars>>

\* return f: the frame ends and hands the closure to its caller
ReturnClosure ==
    /\ InFrame
    /\ scopes[DefiningScope]["f"].k = "clo"
    /\ returned' = TRUE
    /\ UNCHANGED <<scopes, closures, globals, heap, arrowCall>>
    /\ UNCHANGED <<cacheVars, loaderVars, restVars, evalVars, objVars>>

\* name(args): _eval_function_call finds a closure under the name and calls
\* it.  Inside the defining frame the name is f or x; after the frame has
\* returned the caller calls the closure it received, by a name of its own.
CallClosure(name, args) ==
    /\ Stepping
    /\ IF returned THEN name \in CallerNames
       ELSE name \in LocalNames /\ scopes[DefiningScope][name].k = "clo"
    /\ LET c == IF returned THEN scopes[DefiningScope]["f"].v
                ELSE scopes[DefiningScope][name].v
           id == closures[c].closure_scope
           fs == FuncScope(c, scopes[id], args, name)
           st == ExecBody(closures[c].body, 1,
                          [fs |-> fs, glob |-> globals, heap |-> heap, done |-> FALSE,
                           result |-> NoneValue])
       IN  /\ scopes' = AfterCall(scopes, id, st.fs)
           /\ globals' = st.glob
           /\ heap' = st.heap
           /\ arrowCall' = [n |-> steps + 1, clo |-> c, again |-> arrowCall.clo = c,
                            name |-> name, start |-> fs, end |-> st.fs,
                            result |-> st.result]
    /\ UNCHANGED <<closures, returned>>
    /\ UNCHANGED <<cacheVars, loaderVars, restVars, evalVars, objVars>>

InitClo ==
    /\ RestIdle
    /\ scopes = <<EmptyScope>>
    /\ closures = <<>>
    /\ globals = [EmptyScope EXCEPT !["g"] = IntValue(1)]
    /\ heap = 0
    /\ returned = FALSE
    /\ steps = 0
    /\ arrowCall = NoArrowCall
    /\ ObjIdle /\ EvalIdle /\ CacheIdle /\ LoaderIdle

NextClo ==
    \/ \E n \in 1..MaxValue : AssignLiteral(n)
    \/ AssignVariable
    \/ IncrementLocal
    \/ AssignDict
    \/ \E fn \in ArrowFunctions : CreateClosure(fn)
    \/ ReturnClosure
    \/ \E name \in LocalNames \cup CallerNames, a \in 1..MaxValue : CallClosure(name, <<IntValue(a)>>)

SpecClo == InitClo /\ [][NextClo]_vars

Called == arrowCall.n > 0
CalledClosure == closures[arrowCall.clo]
ReadsX == CalledClosure.body = <<ReturnVar("x")>>
OwnNames == {CalledClosure.params[i] : i \in DOMAIN CalledClosure.params} \cup {arrowCall.name}

\* C9 as stated: a closure created while x was 1 reads x = 1 whenever it is
\* called.
C9_AlwaysReadsCapturedX ==
    (Called /\ ReadsX /\ CalledClosure.created["x"] = IntValue(1)) => arrowCall.result = IntValue(1)

\* C9: a closure created while the local x was 1 reads x = 1 when called
\* later, whatever the defining frame has assigned to x since and whether
\* or not it has returned, provided x is neither a parameter of the closure
\* nor the name it is called by.
C9_ReadsCapturedX ==
    (Called /\ ReadsX /\ CalledClosure.created["x"] = IntValue(1) /\ "x" \notin OwnNames) =>
        arrowCall.result = IntValue(1)

C9_Witness ==
    /\ Called /\ ReadsX
    /\ arrowCall.name = "f"
    /\ CalledClosure.params = <<>>
    /\ CalledClosure.created["x"] = IntValue(1)
    /\ scopes[DefiningScope]["x"] = IntValue(2)
    /\ arrowCall.result = IntValue(1)

\* C10: the scope captured by a closure is frozen at creation: a call of
\* the closure, with the assignments and increments of its body, changes
\* neither the captured bindings nor the bindings of the defining scope,
\* and every call starts from the bindings captured at creation, plus the
\* parameters and the closure's own name.
C10_CapturedScopeFrozen ==
    /\ [][arrowCall'.n # arrowCall.n => scopes' = scopes /\ closures' = closures]_vars
    /\ [](\A c \in DOMAIN closures :
            scopes[closures[c].closure_scope] = closures[c].created)
    /\ [](Called => \A n \in VarNames \ OwnNames :
                        arrowCall.start[n] = CalledClosure.created[n])

C10_Witness ==
    /\ Called
    /\ CalledClosure.body = <<AssignLit("x", 2), Incr("x"), ReturnVar("x")>>
    /\ CalledClosure.created["x"] = IntValue(1)
    /\ arrowCall.start["x"] = IntValue(1)
    /\ arrowCall.end["x"] = IntValue(3)
    /\ arrowCall.result = IntValue(3)
    /\ scopes[CalledClosure.closure_scope]["x"] = IntValue(1)
    /\ scopes[DefiningScope]["x"] = IntValue(1)
    /\ arrowCall.again

(***************************************************************************)
(* The two depth limits (core/evaluator.py).  execute_function refuses a   *)
(* call when call_stack already holds MAX_RECURSION_DEPTH labels;           *)
(* evaluate_expression counts expr_eval_depth up on entry and down on exit  *)
(* and refuses an expression once it exceeds MAX_EXPR_DEPTH.  The run is    *)
(*   main: () => { x = f(N); echo x }                                       *)
(* with f one of                                                            *)
(*   expr: (n) => { if (n <= 0) { return 0 }  return f(n - 1) + 1 }         *)
(*   stmt: (n) => { if (n <= 0) { return 0 }  f(n - 1)  return 1 }          *)
(* taken one evaluator step at a time.                                      *)
(***************************************************************************)
MAX_RECURSION_DEPTH == 500
MAX_EXPR_DEPTH == 200

RecursionArgs == {0, 1, 98, 99, 498, 499}
Variants == {"expr", "stmt"}

\* evaluate_expression on a subtree whose deepest node is `nesting` levels
\* down refuses it when the counter would pass the limit
TooDeep(nesting) == expr_eval_depth + nesting > MAX_EXPR_DEPTH

\* an HPLRecursionError leaves through every finally clause on its way up:
\* the counter is taken back to zero and the call stack is emptied
RaiseRecursionError(limit) ==
    /\ rec' = [rec EXCEPT !.pc = "failed", !.limit = limit, !.depth = Len(call_stack)]
    /\ call_stack' = <<>>
    /\ expr_eval_depth' = 0

\* run: execute_function(main), then the assignment x = f(N) evaluates the
\* call expression (one level) and its literal argument (one level below)
RunMain(N, variant) ==
    /\ rec.pc = "idle"
    /\ call_stack' = Append(call_stack, "main()")
    /\ expr_eval_depth' = expr_eval_depth + 1
    /\ rec' = [rec EXCEPT !.pc = "call", !.variant = variant, !.n = N]
    /\ UNCHANGED <<cacheVars, loaderVars, evalVars, objVars, cloVars, laterVars, lexVars>>

\* execute_function(f): the depth check and the push of the label
EnterFunction ==
    /\ rec.pc = "call"
    /\ IF Len(call_stack) >= MAX_RECURSION_DEPTH
       THEN RaiseRecursionError("call")
       ELSE /\ call_stack' = Append(call_stack, "f()")
            /\ rec' = [rec EXCEPT !.pc = "cond"]
            /\ UNCHANGED expr_eval_depth
    /\ UNCHANGED <<cacheVars, loaderVars, evalVars, objVars, cloVars, laterVars, lexVars>>

\* _execute_if: the condition n <= 0, a binary operation over two leaves
EvalCondition ==
    /\ rec.pc = "cond"
    /\ IF TooDeep(2)
       THEN RaiseRecursionError("expr")
       ELSE /\ rec' = [rec EXCEPT !.pc = IF rec.n <= 0 THEN "base" ELSE "recur"]
            /\ UNCHANGED <<call_stack, expr_eval_depth>>
    /\ UNCHANGED <<cacheVars, loaderVars, evalVars, objVars, cloVars, laterVars, lexVars>>

\* expr: _execute_return evaluates f(n - 1) + 1: the addition, below it the
\* call, below it the argument n - 1 and its leaves; the addition and the
\* call stay entered while f runs.  stmt: the call statement goes to
\* _eval_function_call directly and only its argument is evaluated.
Recurse ==
    /\ rec.pc = "recur"
    /\ IF TooDeep(IF rec.variant = "expr" THEN 4 ELSE 2)
       THEN RaiseRecursionError("expr")
       ELSE /\ expr_eval_depth' = expr_eval_depth + (IF rec.variant = "expr" THEN 2 ELSE 0)
            /\ rec' = [rec EXCEPT !.pc = "call", !.n = @ - 1]
            /\ UNCHANGED call_stack
    /\ UNCHANGED <<cacheVars, loaderVars, evalVars, objVars, cloVars, laterVars, lexVars>>

\* return 0
ReturnBase ==
    /\ rec.pc = "base"
    /\ IF TooDeep(1)
       THEN RaiseRecursionError("expr")
       ELSE /\ rec' = [rec EXCEPT !.pc = "return", !.value = 0]
            /\ UNCHANGED <<call_stack, expr_eval_depth>>
    /\ UNCHANGED <<cacheVars, loaderVars, evalVars, objVars, cloVars, laterVars, lexVars>>

\* execute_function returns: the label is popped; the caller finishes the
\* expression or statement the call was part of and returns in its turn
\* (f), or assigns, echoes and ends the run (main)
ReturnToCaller ==
    /\ rec.pc = "return"
    /\ IF Len(call_stack) > 2
       THEN /\ call_stack' = SubSeq(call_stack, 1, Len(call_stack) - 1)
            /\ expr_eval_depth' = expr_eval_depth - (IF rec.variant = "expr" THEN 2 ELSE 0)
            /\ rec' = [rec EXCEPT !.value = IF rec.variant = "expr" THEN @ + 1 ELSE 1]
       ELSE /\ call_stack' = <<>>
            /\ expr_eval_depth' = expr_eval_depth - 1
            /\ rec' = [rec EXCEPT !.pc = "done"]
    /\ UNCHANGED <<cacheVars, loaderVars, evalVars, objVars, cloVars, laterVars, lexVars>>

InitDepth ==
    /\ DepthIdle /\ LexIdle /\ LaterIdle
    /\ EvalIdle /\ ObjIdle /\ CloIdle
    /\ CacheIdle /\ LoaderIdle

NextDepth ==
    \/ \E N \in RecursionArgs, variant \in Variants : RunMain(N, variant)
    \/ EnterFunction
    \/ EvalCondition
    \/ Recurse
    \/ ReturnBase
    \/ ReturnToCaller

SpecDepth == InitDepth /\ [][NextDepth]_vars

\* C17: the two limits count different things, so a run whose recursion
\* goes through an expression (return f(n - 1) + 1) fails, if it fails,
\* only at the call-depth limit: the failure is raised by the check of the
\* call stack, with MAX_RECURSION_DEPTH calls active, never by the check of
\* the expression depth; and a run that ends well has emptied both.
C17_IndependentCounters ==
    /\ rec.pc = "failed"
            => (rec.limit = "call" /\ rec.depth = MAX_RECURSION_DEPTH)
    /\ rec.pc = "done" => (call_stack = <<>> /\ expr_eval_depth = 0)

(***************************************************************************)
(* The tokenizer (HPLLexer, core/lexer.py).  The source text is a sequence *)
(* of characters; every action is one pass through the loop of tokenize(), *)
(* by the branch that pass takes.  A token keeps its type and its value.   *)
(***************************************************************************)
MaxLines == 3
TabWidth == 4

NoChar == "None"
LeadingWhitespace == {<<>>, <<" ">>, <<" ", " ">>, <<"\t">>}
LineBodies == {<<>>, <<"a">>, <<"#">>}
SourceLines ==
    {w \o b : w \in LeadingWhitespace, b \in LineBodies} \cup {<<"a", " ", "#">>, <<"@">>}

RECURSIVE JoinLines(_)
JoinLines(lines) ==
    IF lines = <<>> THEN <<>>
    ELSE IF Len(lines) = 1 THEN lines[1]
    ELSE lines[1] \o <<"\n">> \o JoinLines(Tail(lines))

Texts == {JoinLines(ls) : ls \in UNION {[1..n -> SourceLines] : n \in 0..MaxLines}}

\* current_char once pos is p: None past the end of the text
CharAt(p) == IF p > Len(text) - 1 THEN NoChar ELSE text[p + 1]
current_char == CharAt(pos)

IsSpace(c) == c \in {" ", "\t", "\n"}
IsAlnum(c) == c = "a"

Token(type, value) == [type |-> type, value |-> value]
TopOf(stk) == stk[Len(stk)]
PopOf(stk) == SubSeq(stk, 1, Len(stk) - 1)

\* while indent < indent_stack[-1]: pop, append DEDENT
RECURSIVE DedentTo(_, _, _)
DedentTo(stk, toks, indent) ==
    IF indent < TopOf(stk)
    THEN DedentTo(PopOf(stk), Append(toks, Token("DEDENT", TopOf(PopOf(stk)))), indent)
    ELSE [stack |-> stk, tokens |-> toks]

\* the end of input leaves the indentation stack as it is
KeepIndents(stk, toks) == [stack |-> stk, tokens |-> toks]

\* while len(indent_stack) > 1: pop, append DEDENT
RECURSIVE FlushIndents(_, _)
FlushIndents(stk, toks) ==
    IF Len(stk) > 1
    THEN FlushIndents(PopOf(stk), Append(toks, Token("DEDENT", TopOf(PopOf(stk)))))
    ELSE [stack |-> stk, tokens |-> toks]

\* the leading blanks of a line: a space counts 1, a tab counts TabWidth
RECURSIVE MeasureIndent(_, _)
MeasureIndent(p, indent) ==
    IF CharAt(p) # NoChar /\ IsSpace(CharAt(p)) /\ CharAt(p) # "\n"
    THEN MeasureIndent(p + 1, indent + (IF CharAt(p) = " " THEN 1
                                        ELSE IF CharAt(p) = "\t" THEN TabWidth ELSE 0))
    ELSE [pos |-> p, indent |-> indent]

\* skip_whitespace: past the blanks that are not a line break
RECURSIVE AfterWhitespace(_)
AfterWhitespace(p) ==
    IF CharAt(p) # NoChar /\ IsSpace(CharAt(p)) /\ CharAt(p) # "\n"
    THEN AfterWhitespace(p + 1) ELSE p

\* skip_comment: up to the line break or the end of the text
RECURSIVE AfterComment(_)
AfterComment(p) ==
    IF CharAt(p) # NoChar /\ CharAt(p) # "\n" THEN AfterComment(p + 1) ELSE p

\* identifier(): past the letters, digits and underscores
RECURSIVE AfterIdentifier(_)
AfterIdentifier(p) ==
    IF CharAt(p) # NoChar /\ IsAlnum(CharAt(p)) THEN AfterIdentifier(p + 1) ELSE p

InLoop == lexPc = "run" /\ current_char # NoChar

\* _handle_indentation
HandleIndentation ==
    /\ InLoop /\ at_line_start
    /\ IF ~IsSpace(current_char) THEN
            LET d == DedentTo(indent_stack, tokens, 0)
            IN  /\ indent_stack' = d.stack
                /\ tokens' = d.tokens
                /\ at_line_start' = FALSE
                /\ pos' = pos
       ELSE
            LET m == MeasureIndent(pos, 0)
                current_indent == TopOf(indent_stack)
            IN  IF CharAt(m.pos) = "\n" \/ CharAt(m.pos) = NoChar THEN
                    /\ at_line_start' = TRUE
                    /\ pos' = IF CharAt(m.pos) = "\n" THEN m.pos + 1 ELSE m.pos
                    /\ UNCHANGED <<indent_stack, tokens>>
                ELSE
                    /\ pos' = m.pos
                    /\ at_line_start' = FALSE
                    /\ IF m.indent > current_indent THEN
                            /\ indent_stack' = Append(indent_stack, m.indent)
                            /\ tokens' = Append(tokens, Token("INDENT", m.indent))
                       ELSE IF m.indent < current_indent THEN
                            LET d == DedentTo(indent_stack, tokens, m.indent)
                            IN  indent_stack' = d.stack /\ tokens' = d.tokens
                       ELSE UNCHANGED <<indent_stack, tokens>>
    /\ UNCHANGED <<text, lexPc>>
    /\ UNCHANGED <<cacheVars, loaderVars, evalVars, objVars, cloVars, laterVars, depthVars>>

\* a line break after the first token of a line
Newline ==
    /\ InLoop /\ ~at_line_start /\ current_char = "\n"
    /\ pos' = pos + 1
    /\ at_line_start' = TRUE
    /\ UNCHANGED <<text, indent_stack, tokens, lexPc>>
    /\ UNCHANGED <<cacheVars, loaderVars, evalVars, objVars, cloVars, laterVars, depthVars>>

Comment ==
    /\ InLoop /\ ~at_line_start /\ current_char = "#"
    /\ pos' = AfterComment(pos)
    /\ at_line_start' = TRUE
    /\ UNCHANGED <<text, indent_stack, tokens, lexPc>>
    /\ UNCHANGED <<cacheVars, loaderVars, evalVars, objVars, cloVars, laterVars, depthVars>>

SkipWhitespace ==
    /\ InLoop /\ ~at_line_start /\ current_char \notin {"\n", "#"}
    /\ IsSpace(current_char)
    /\ pos' = AfterWhitespace(pos)
    /\ UNCHANGED <<text, at_line_start, indent_stack, tokens, lexPc>>
    /\ UNCHANGED <<cacheVars, loaderVars, evalVars, objVars, cloVars, laterVars, depthVars>>

\* _handle_identifier
ScanIdentifier ==
    /\ InLoop /\ ~at_line_start /\ IsAlnum(current_char)
    /\ pos' = AfterIdentifier(pos)
    /\ tokens' = Append(tokens, Token("IDENTIFIER", "a"))
    /\ at_line_start' = FALSE
    /\ UNCHANGED <<text, indent_stack, lexPc>>
    /\ UNCHANGED <<cacheVars, loaderVars, evalVars, objVars, cloVars, laterVars, depthVars>>

\* raise HPLSyntaxError("Invalid character ...")
InvalidCharacter ==
    /\ InLoop /\ ~at_line_start /\ current_char = "@"
    /\ lexPc' = "error"
    /\ at_line_start' = FALSE
    /\ UNCHANGED <<text, pos, indent_stack, tokens>>
    /\ UNCHANGED <<cacheVars, loaderVars, evalVars, objVars, cloVars, laterVars, depthVars>>

\* the end of the text: close the open levels, append EOF, return
EndOfText ==
    /\ lexPc = "run" /\ current_char = NoChar
    /\ LET d == FlushIndents(indent_stack, tokens)
       IN  /\ indent_stack' = d.stack
           /\ tokens' = Append(d.tokens, Token("EOF", NoChar))
    /\ lexPc' = "done"
    /\ UNCHANGED <<text, pos, at_line_start>>
    /\ UNCHANGED <<cacheVars, loaderVars, evalVars, objVars, cloVars, laterVars, depthVars>>

InitLex ==
    /\ text \in Texts
    /\ pos = 0 /\ at_line_start = TRUE
    /\ indent_stack = <<0>> /\ tokens = <<>> /\ lexPc = "run"
    /\ DepthIdle /\ LaterIdle
    /\ EvalIdle /\ ObjIdle /\ CloIdle
    /\ CacheIdle /\ LoaderIdle

NextLex ==
    \/ HandleIndentation
    \/ Newline
    \/ Comment
    \/ SkipWhitespace
    \/ ScanIdentifier
    \/ InvalidCharacter
    \/ EndOfText

SpecLex == InitLex /\ [][NextLex]_vars

NumOf(toks, type) == Cardinality({k \in DOMAIN toks : toks[k].type = type})
TypesOf(toks) == [k \in DOMAIN toks |-> toks[k].type]

\* the block markers of a token list under construction or returned
MarkersBalanced ==
    /\ lexPc \in {"run", "done"} =>
          /\ \A k \in 0..Len(tokens) :
                NumOf(SubSeq(tokens, 1, k), "INDENT") >= NumOf(SubSeq(tokens, 1, k), "DEDENT")
          /\ NumOf(tokens, "INDENT") - NumOf(tokens, "DEDENT") = Len(indent_stack) - 1
    /\ lexPc = "run" => NumOf(tokens, "EOF") = 0
    /\ lexPc = "done" =>
          /\ NumOf(tokens, "EOF") = 1
          /\ tokens[Len(tokens)].type = "EOF"
          /\ indent_stack = <<0>>
          /\ NumOf(tokens, "INDENT") = NumOf(tokens, "DEDENT")

Pushed == IF Len(indent_stack') > Len(indent_stack) THEN Len(indent_stack') - Len(indent_stack) ELSE 0
Popped == IF Len(indent_stack') < Len(indent_stack) THEN Len(indent_stack) - Len(indent_stack') ELSE 0

\* C20: while the text tokenizes without error, every prefix of the token
\* list has at least as many INDENT as DEDENT tokens, the levels open on the
\* indentation stack are the INDENTs not yet matched by a DEDENT, and there
\* is no EOF; when tokenize returns, the list ends with its only EOF, no
\* level is open and the INDENT and DEDENT totals are equal.  Every step
\* appends one INDENT when a line is indented deeper than the top of the
\* stack (the one level it pushes) and one DEDENT per level it pops.
C20_BalancedBlockMarkers ==
    /\ []MarkersBalanced
    /\ [][/\ Pushed <= 1
          /\ NumOf(tokens', "INDENT") = NumOf(tokens, "INDENT") + Pushed
          /\ NumOf(tokens', "DEDENT") = NumOf(tokens, "DEDENT") + Popped
          /\ SubSeq(tokens', 1, Len(tokens)) = tokens]_vars

\* three lines, each indented deeper than the one before: the two levels
\* open at the end of the text are closed before EOF
C20_Witness ==
    /\ lexPc = "done"
    /\ TypesOf(tokens) = <<"IDENTIFIER", "INDENT", "IDENTIFIER", "INDENT", "IDENTIFIER",
                           "DEDENT", "DEDENT", "EOF">>

\* The lines of the text: the characters between line breaks.
RECURSIVE SplitLines(_, _)
SplitLines(t, line) ==
    IF t = <<>> THEN <<line>>
    ELSE IF Head(t) = "\n" THEN <<line>> \o SplitLines(Tail(t), <<>>)
    ELSE SplitLines(Tail(t), Append(line, Head(t)))

\* The indentation width of a line and its first character after it.
RECURSIVE WidthOf(_)
WidthOf(line) ==
    IF line = <<>> THEN 0
    ELSE IF Head(line) = " " THEN 1 + WidthOf(Tail(line))
    ELSE IF Head(line) = "\t" THEN TabWidth + WidthOf(Tail(line))
    ELSE 0
RECURSIVE FirstChar(_)
FirstChar(line) ==
    IF line = <<>> THEN NoChar
    ELSE IF Head(line) \in {" ", "\t"} THEN FirstChar(Tail(line))
    ELSE Head(line)

\* The widths of the code lines of the text, in order (blank lines and
\* comment-only lines left out).
CodeWidths ==
    LET ls == SplitLines(text, <<>>)
    IN  [k \in 1..Len(SelectSeq(ls, LAMBDA l : FirstChar(l) = "a")) |->
            WidthOf(SelectSeq(ls, LAMBDA l : FirstChar(l) = "a")[k])]

\* The positions of the IDENTIFIER tokens: every code line of the texts
\* considered holds exactly one, so the k-th is the k-th code line's.
IdentifierPositions == SelectSeq([k \in 1..Len(tokens) |-> k],
                                 LAMBDA k : tokens[k].type = "IDENTIFIER")

\* C30: between two consecutive code lines of equal indentation width the
\* tokenizer emits neither INDENT nor DEDENT: their tokens are adjacent in
\* the token list.
C30_EqualWidthNoMarkers ==
    lexPc = "done" =>
        \A k \in 1..(Len(CodeWidths) - 1) :
            CodeWidths[k] = CodeWidths[k + 1]
                => IdentifierPositions[k + 1] = IdentifierPositions[k] + 1

(***************************************************************************)
(* The statement parser (HPLASTParser, core/ast_parser.py).  A function    *)
(* body is a list of source lines, each an indentation width and the       *)
(* tokens of the line; the tokenizer's indentation handling turns the      *)
(* lines into the token list, and parse_block() turns the token list into  *)
(* statements in the form the evaluator executes.  Parser positions count  *)
(* from 0, as in the code.                                                 *)
(***************************************************************************)
MaxNesting == 3
IndentStep == 2

Forms == {"indent", "colon", "brace"}

Keyword(v) == Token("KEYWORD", v)
Identifier(v) == Token("IDENTIFIER", v)
Punct(type) == Token(type, type)
SourceLine(indent, toks) == [indent |-> indent, toks |-> toks]

\* The statement families: an assignment, or an if whose then-block is a
\* family of less nesting and which has no else or the else-block b = 1;
\* a block is one statement, or an if followed by the assignment a = 1.
RECURSIVE BlocksOf(_)
StatementsOf(d) ==
    {Assign("a")} \cup
    (IF d = 0 THEN {}
     ELSE {If("c", Block(b), e) : b \in BlocksOf(d - 1), e \in {NoBlock, Block(<<Assign("b")>>)}})
BlocksOf(d) ==
    {<<s>> : s \in StatementsOf(d)} \cup
    {<<s, Assign("a")>> : s \in {x \in StatementsOf(d) : x.t = "if"}}

\* The source lines of a statement list written in one of the three block
\* forms at indentation width ind.
RECURSIVE RenderStatements(_, _, _)
RenderStatement(st, form, ind) ==
    IF st.t = "assign"
    THEN <<SourceLine(ind, <<Identifier(st.v), Punct("ASSIGN"), Token("NUMBER", 1)>>)>>
    ELSE
        LET opener == CASE form = "indent" -> <<>>
                        [] form = "colon" -> <<Punct("COLON")>>
                        [] form = "brace" -> <<Punct("LBRACE")>>
            head == <<Keyword("if"), Punct("LPAREN"), Identifier(st.c), Punct("RPAREN")>>
            thenLines == RenderStatements(st.then_block.statements, form, ind + IndentStep)
            elseLines == RenderStatements(st.else_block.statements, form, ind + IndentStep)
        IN  IF form = "brace" THEN
                <<SourceLine(ind, head \o opener)>> \o thenLines \o
                (IF st.else_block.present
                 THEN <<SourceLine(ind, <<Punct("RBRACE"), Keyword("else"), Punct("LBRACE")>>)>>
                      \o elseLines \o <<SourceLine(ind, <<Punct("RBRACE")>>)>>
                 ELSE <<SourceLine(ind, <<Punct("RBRACE")>>)>>)
            ELSE
                <<SourceLine(ind, head \o opener)>> \o thenLines \o
                (IF st.else_block.present
                 THEN <<SourceLine(ind, <<Keyword("else")>> \o opener)>> \o elseLines
                 ELSE <<>>)
RenderStatements(stmts, form, ind) ==
    IF stmts = <<>> THEN <<>>
    ELSE RenderStatement(Head(stmts), form, ind) \o RenderStatements(Tail(stmts), form, ind)

\* tokenize() on the lines: _handle_indentation at the start of each line,
\* then the line's tokens; at the end the open levels are closed and EOF is
\* appended.
RECURSIVE TokenizeLines(_, _, _)
TokenizeLines(lines, stk, toks) ==
    IF lines = <<>> THEN Append(FlushIndents(stk, toks).tokens, Token("EOF", NoChar))
    ELSE
        LET line == Head(lines)
            d == IF line.indent > TopOf(stk)
                 THEN [stack |-> Append(stk, line.indent),
                       tokens |-> Append(toks, Token("INDENT", line.indent))]
                 ELSE DedentTo(stk, toks, line.indent)
        IN  TokenizeLines(Tail(lines), d.stack, d.tokens \o line.toks)

NoToken == Token("None", NoChar)
\* current_token once pos is p
TokenAt(toks, p) == IF p < Len(toks) THEN toks[p + 1] ELSE NoToken
IsType(toks, p, type) == TokenAt(toks, p).type = type
IsKeyword(toks, p, v) == IsType(toks, p, "KEYWORD") /\ TokenAt(toks, p).value = v
BlockTerminators == {"else", "catch", "elif", "finally"}
IsTerminatorKeyword(toks, p) ==
    IsType(toks, p, "KEYWORD") /\ TokenAt(toks, p).value \in BlockTerminators
AtBlockEnd(toks, p) == TokenAt(toks, p).type \in {"None", "RBRACE", "EOF"}

\* What a parsing method leaves: the node it built and the position after
\* it, or the syntax error it raised.
Parsed(node, p) == [ok |-> TRUE, node |-> node, pos |-> p]
SyntaxError(p) == [ok |-> FALSE, node |-> <<>>, pos |-> p]

\* _skip_dedents(min_indent_level)
RECURSIVE SkipDedents(_, _, _)
SkipDedents(toks, p, min) ==
    IF IsType(toks, p, "DEDENT") /\ TokenAt(toks, p).value >= min
    THEN SkipDedents(toks, p + 1, min) ELSE p

\* _skip_dedents()
RECURSIVE SkipAllDedents(_, _)
SkipAllDedents(toks, p) ==
    IF IsType(toks, p, "DEDENT") THEN SkipAllDedents(toks, p + 1) ELSE p

\* _skip_indents
RECURSIVE SkipIndents(_, _)
SkipIndents(toks, p) ==
    IF IsType(toks, p, "INDENT") THEN SkipIndents(toks, p + 1) ELSE p

\* parse_expression on a variable or a number: the DEDENTs of the current
\* level before it are skipped
ParseExpression(toks, p, level) ==
    LET q == SkipDedents(toks, p, level)
    IN  IF TokenAt(toks, q).type \in {"IDENTIFIER", "NUMBER"} THEN Parsed(<<>>, q + 1)
        ELSE SyntaxError(q)

\* parse_if_statement, the loop before the else: the DEDENT in front of an
\* else is consumed; a DEDENT below the level stops the search; any other
\* DEDENT is skipped
RECURSIVE FindElse(_, _, _)
FindElse(toks, p, level) ==
    IF ~IsType(toks, p, "DEDENT") THEN p
    ELSE IF IsKeyword(toks, p + 1, "else") THEN p + 1
    ELSE IF TokenAt(toks, p).value < level THEN p
    ELSE FindElse(toks, p + 1, level)

RECURSIVE ParseStatementsUntilEnd(_, _, _, _)
RECURSIVE ParseBraceStatements(_, _, _, _)
RECURSIVE ParseBlock(_, _, _)
RECURSIVE ParseStatement(_, _, _)

\* _parse_indent_block: the block's statements are parsed at the level of
\* its INDENT, then the DEDENTs down to the enclosing level are skipped
ParseIndentBlock(toks, p, level) ==
    LET block_indent_level == TokenAt(toks, p).value
        r == ParseStatementsUntilEnd(toks, p + 1, block_indent_level, <<>>)
    IN  IF ~r.ok THEN r
        ELSE Parsed(Block(r.node), SkipDedents(toks, r.pos, level))

\* _parse_brace_block
ParseBraceBlock(toks, p, level) ==
    IF ~IsType(toks, p, "LBRACE") THEN SyntaxError(p)
    ELSE
        LET r == ParseBraceStatements(toks, SkipIndents(toks, p + 1), level, <<>>)
            q == SkipAllDedents(toks, r.pos)
        IN  IF ~r.ok THEN r
            ELSE Parsed(Block(r.node), IF IsType(toks, q, "RBRACE") THEN q + 1 ELSE q)

\* _parse_colon_block
ParseColonBlock(toks, p, level) ==
    IF ~IsType(toks, p, "COLON") THEN SyntaxError(p)
    ELSE IF IsType(toks, p + 1, "LBRACE") THEN ParseBraceBlock(toks, p + 1, level)
    ELSE IF IsType(toks, p + 1, "INDENT") THEN ParseIndentBlock(toks, p + 1, level)
    ELSE IF \/ AtBlockEnd(toks, p + 1)
            \/ IsTerminatorKeyword(toks, p + 1)
            \/ (IsType(toks, p + 1, "DEDENT") /\ TokenAt(toks, p + 1).value < level)
         THEN Parsed(Block(<<>>), SkipDedents(toks, p + 1, level))
    ELSE LET r == ParseStatement(toks, p + 1, level)
         IN  IF ~r.ok THEN r
             ELSE Parsed(Block(<<r.node>>), SkipDedents(toks, r.pos, level))

\* parse_block
ParseBlock(toks, p, level) ==
    IF IsType(toks, p, "INDENT") THEN ParseIndentBlock(toks, p, level)
    ELSE IF IsType(toks, p, "COLON") THEN ParseColonBlock(toks, p, level)
    ELSE IF IsType(toks, p, "LBRACE") THEN ParseBraceBlock(toks, p, level)
    ELSE LET r == ParseStatementsUntilEnd(toks, p, level, <<>>)
         IN  IF ~r.ok THEN r ELSE Parsed(Block(r.node), r.pos)

\* parse_if_statement
ParseIfStatement(toks, p, level) ==
    IF ~(IsKeyword(toks, p, "if") /\ IsType(toks, p + 1, "LPAREN")) THEN SyntaxError(p)
    ELSE
        LET condition == ParseExpression(toks, p + 2, level)
        IN  IF ~condition.ok THEN condition
            ELSE IF ~IsType(toks, condition.pos, "RPAREN") THEN SyntaxError(condition.pos)
            ELSE
                LET then_block == ParseBlock(toks, SkipDedents(toks, condition.pos + 1, level),
                                             level)
                    q == FindElse(toks, then_block.pos, level)
                    afterElse == IF IsType(toks, q + 1, "DEDENT") THEN q + 2 ELSE q + 1
                    else_block == ParseBlock(toks, afterElse, level)
                    name == TokenAt(toks, p + 2).value
                IN  IF ~then_block.ok THEN then_block
                    ELSE IF ~IsKeyword(toks, q, "else")
                         THEN Parsed(If(name, then_block.node, NoBlock), q)
                    ELSE IF ~else_block.ok THEN else_block
                    ELSE Parsed(If(name, then_block.node, else_block.node), else_block.pos)

\* parse_statement: an if statement or an assignment of a variable or number
ParseStatement(toks, p, level) ==
    LET q == SkipDedents(toks, SkipIndents(toks, p), level)
    IN  IF IsKeyword(toks, q, "if") THEN ParseIfStatement(toks, q, level)
        ELSE IF IsType(toks, q, "IDENTIFIER") /\ IsType(toks, q + 1, "ASSIGN") THEN
            LET e == ParseExpression(toks, q + 2, level)
            IN  IF ~e.ok THEN e ELSE Parsed(Assign(TokenAt(toks, q).value), e.pos)
        ELSE SyntaxError(q)

\* _parse_statements_until_end: one pass of its loop per call
ParseStatementsUntilEnd(toks, p, level, statements) ==
    IF AtBlockEnd(toks, p) \/ IsTerminatorKeyword(toks, p) THEN Parsed(statements, p)
    ELSE IF IsType(toks, p, "DEDENT") THEN
        IF TokenAt(toks, p).value < level THEN Parsed(statements, p)
        ELSE ParseStatementsUntilEnd(toks, p + 1, level, statements)
    ELSE
        LET q == IF IsType(toks, p, "INDENT") THEN p + 1 ELSE p
        IN  IF AtBlockEnd(toks, q) \/ IsTerminatorKeyword(toks, q) THEN Parsed(statements, q)
            ELSE IF IsType(toks, q, "DEDENT") THEN
                IF TokenAt(toks, q).value < level THEN Parsed(statements, q)
                ELSE ParseStatementsUntilEnd(toks, q + 1, level, statements)
            ELSE
                LET r == ParseStatement(toks, q, level)
                IN  IF ~r.ok THEN r
                    ELSE ParseStatementsUntilEnd(toks, r.pos, level, Append(statements, r.node))

\* the loop of _parse_brace_block: one pass per call
ParseBraceStatements(toks, p, level, statements) ==
    IF AtBlockEnd(toks, p) THEN Parsed(statements, p)
    ELSE IF IsType(toks, p, "DEDENT") THEN ParseBraceStatements(toks, p + 1, level, statements)
    ELSE
        LET q == SkipIndents(toks, p)
        IN  IF AtBlockEnd(toks, q) \/ IsTerminatorKeyword(toks, q) THEN Parsed(statements, q)
            ELSE LET r == ParseStatement(toks, q, level)
                 IN  IF ~r.ok THEN r
                     ELSE ParseBraceStatements(toks, r.pos, level, Append(statements, r.node))

\* parse_function: the body is tokenized and given to parse_block() at
\* indentation level 0.
TokensOf(src) == TokenizeLines(RenderStatements(src.statements, src.form, 0), <<0>>, <<>>)

Parse ==
    /\ source # NoSource /\ parsed = NotParsed
    /\ parsed' = ParseBlock(TokensOf(source), 0, 0)
    /\ UNCHANGED source
    /\ UNCHANGED <<cacheVars, loaderVars, evalVars, objVars, cloVars, depthVars, lexVars, mergeVars, tailVars>>

InitParse ==
    /\ source \in {[statements |-> b, form |-> f] : b \in BlocksOf(MaxNesting), f \in Forms}
    /\ parsed = NotParsed
    /\ MergeIdle /\ TailIdle
    /\ DepthIdle /\ LexIdle
    /\ EvalIdle /\ ObjIdle /\ CloIdle
    /\ CacheIdle /\ LoaderIdle

NextParse == Parse

SpecParse == InitParse /\ [][NextParse]_vars

\* What parse_block() makes of the body's statements written in form f.
ParsedAs(f) == ParseBlock(TokensOf([source EXCEPT !.form = f]), 0, 0)

\* C21: the same statements written as indentation-only, colon-introduced
\* and explicit-brace blocks parse to the same AST.
C21_FormsParseAlike ==
    parsed # NotParsed =>
        \A f \in Forms : ParsedAs(f).ok = parsed.ok /\ ParsedAs(f).node = parsed.node

\* C22: in the indentation forms an else is attached to the if it is
\* aligned with: the DEDENT below an inner if's level ends that if, so the
\* body parses to the statements as they were written, an outer if keeping
\* its else and the if nested in its then-block having none.
C22_ElseAttachesToAlignedIf ==
    (parsed # NotParsed /\ source.form \in {"indent", "colon"}) =>
        /\ parsed.ok
        /\ parsed.node = Block(source.statements)

(***************************************************************************)
(* Includes (HPLParser.load_and_parse and merge_data, core/parser.py).  A  *)
(* document is a mapping from keys to values; a value is a scalar, a       *)
(* function definition (a string that contains =>) or a mapping.  Every    *)
(* scalar and function definition carries the name of the document it was  *)
(* written in.                                                             *)
(***************************************************************************)
Scalar(v) == [kind |-> "scalar", val |-> v, items |-> <<>>]
FunctionDef(v) == [kind |-> "function", val |-> v, items |-> <<>>]
Mapping(items) == [kind |-> "dict", val |-> "", items |-> items]
Absent == [kind |-> "absent", val |-> "", items |-> <<>>]
IsDict(v) == v.kind = "dict"

TopKeys == {"classes", "objects", "f", "config"}
ReservedKeys == {"includes", "imports", "classes", "objects", "call"}
ClassKeys == {"K", "L"}
DataKeys == {"k1", "k2"}

\* The mappings from some of the keys to a scalar written in document w.
MapsOver(keys, w) == UNION {[S -> {Scalar(w)}] : S \in SUBSET keys}

\* The documents written in w: classes, objects, a function f and a data
\* object config, each present or not; config is a scalar, a mapping of
\* scalars or a mapping that holds a mapping under key a.
Documents(w) ==
    LET classDefs == {Absent} \cup {Mapping(m) : m \in MapsOver(ClassKeys, w)}
        objectDefs == {Absent, Mapping([k \in {"o"} |-> Scalar(w)])}
        funcs == {Absent, FunctionDef(w)}
        configs == {Absent, Scalar(w)}
                   \cup {Mapping(m) : m \in MapsOver(DataKeys, w)}
                   \cup {Mapping([k \in {"a"} |-> Mapping(m)]) : m \in MapsOver({"k1"}, w)}
        choices == {[k \in TopKeys |-> CASE k = "classes" -> c [] k = "objects" -> o
                                         [] k = "f" -> f [] k = "config" -> g] :
                        c \in classDefs, o \in objectDefs, f \in funcs, g \in configs}
    IN  {[k \in {x \in TopKeys : ch[x] # Absent} |-> ch[k]] : ch \in choices}

\* _deep_merge_dict
RECURSIVE DeepMergeDict(_, _)
DeepMergeDict(target, src) ==
    [k \in DOMAIN target \cup DOMAIN src |->
        IF k \notin DOMAIN target THEN src[k]
        ELSE IF k \in DOMAIN src /\ IsDict(target[k]) /\ IsDict(src[k])
             THEN Mapping(DeepMergeDict(target[k].items, src[k].items))
        ELSE target[k]]

\* dict.update
Update(target, src) ==
    [k \in DOMAIN target \cup DOMAIN src |-> IF k \in DOMAIN src THEN src[k] ELSE target[k]]

\* merge_data, first loop: classes and objects
MergeClassesAndObjects(main, inc) ==
    [k \in DOMAIN main \cup (DOMAIN inc \cap {"classes", "objects"}) |->
        IF k \in {"classes", "objects"} /\ k \in DOMAIN inc
        THEN LET own == IF k \in DOMAIN main THEN main[k].items ELSE <<>>
             IN  IF IsDict(inc[k]) THEN Mapping(Update(own, inc[k].items)) ELSE Mapping(own)
        ELSE main[k]]

\* merge_data, second loop: function definitions and data objects
MergeFunctionsAndData(main, inc) ==
    [k \in DOMAIN main \cup (DOMAIN inc \ ReservedKeys) |->
        IF k \notin DOMAIN main THEN inc[k]
        ELSE IF k \in DOMAIN inc \ ReservedKeys /\ inc[k].kind # "function"
                /\ IsDict(main[k]) /\ IsDict(inc[k])
             THEN Mapping(DeepMergeDict(main[k].items, inc[k].items))
        ELSE main[k]]

MergeData(main, inc) == MergeFunctionsAndData(MergeClassesAndObjects(main, inc), inc)

\* load_and_parse: one include file is read and merged
MergeInclude ==
    /\ ~merged /\ main_data = own_data /\ include_data # <<>>
    /\ main_data' = MergeData(main_data, include_data)
    /\ merged' = TRUE
    /\ UNCHANGED <<own_data, include_data>>
    /\ UNCHANGED <<cacheVars, loaderVars, evalVars, objVars, cloVars, depthVars, lexVars, parseVars, tailVars>>

InitMerge ==
    /\ own_data \in Documents("main")
    /\ include_data \in Documents("include") \ {<<>>}
    /\ main_data = own_data
    /\ merged = FALSE
    /\ ParseIdle /\ TailIdle /\ DepthIdle /\ LexIdle
    /\ EvalIdle /\ ObjIdle /\ CloIdle
    /\ CacheIdle /\ LoaderIdle

NextMerge == MergeInclude

SpecMerge == InitMerge /\ [][NextMerge]_vars

\* Every key of the mapping orig is in res with the value it has in orig;
\* where that value is a mapping, with every key of it kept in the same way.
RECURSIVE Keeps(_, _)
Keeps(orig, res) ==
    \A k \in DOMAIN orig :
        /\ k \in DOMAIN res
        /\ res[k].kind = orig[k].kind
        /\ IF IsDict(orig[k]) THEN Keeps(orig[k].items, res[k].items)
           ELSE res[k].val = orig[k].val

\* C23: after the merge every key of the including document, top-level or
\* nested, class name or object name, has the value the including document
\* gave it.
C23_IncludeNeverOverrides == merged => Keeps(own_data, main_data)

(***************************************************************************)
(* Import statements (hpl_runtime/core/lexer.py _handle_identifier,        *)
(* ast_parser.py parse_import_statement, evaluator.py _execute_import).    *)
(* The body of a function is a few lines, each "import M" or               *)
(* "import M as A"; it is tokenized, parsed and executed statement by      *)
(* statement.                                                              *)
(***************************************************************************)
MaxImports == 2
ModuleNames == {"math", "io", "nomod"}
\* the names load_module() finds a module for
Loadable == {"math", "io"}
AliasNames == {"m", "j"}
NoAlias == "None"
NoModule == "none"
BoundNames == ModuleNames \cup AliasNames \cup {"as"}

ImportLine(module_name, alias) == [module_name |-> module_name, alias |-> alias]
ImportLines ==
    {ImportLine(mod, al) : mod \in ModuleNames, al \in AliasNames \cup {NoAlias}}
ImportBodies == UNION {[1..n -> ImportLines] : n \in 1..MaxImports}

\* the words of a line as they are written
WordsOf(line) ==
    IF line.alias = NoAlias THEN <<"import", line.module_name>>
    ELSE <<"import", line.module_name, "as", line.alias>>

\* _handle_identifier: the words that become KEYWORD tokens
keywords ==
    {"if", "else", "for", "while", "try", "catch", "finally",
     "return", "break", "continue", "import", "throw", "in"}
HandleIdentifier(ident) ==
    IF ident \in keywords THEN Keyword(ident) ELSE Identifier(ident)

RECURSIVE TokenizeImports(_)
TokenizeImports(lines) ==
    IF lines = <<>> THEN <<Token("EOF", NoChar)>>
    ELSE LET words == WordsOf(Head(lines))
         IN  [k \in 1..Len(words) |-> HandleIdentifier(words[k])]
                 \o TokenizeImports(Tail(lines))

ImportStatement(module_name, alias) ==
    [type |-> "ImportStatement", module_name |-> module_name, alias |-> alias]
Variable(name) == [type |-> "Variable", name |-> name]

\* parse_import_statement, entered at the keyword import
ParseImportStatement(toks, p) ==
    IF ~IsType(toks, p + 1, "IDENTIFIER") THEN SyntaxError(p + 1)
    ELSE LET module_name == TokenAt(toks, p + 1).value
         IN  IF IsKeyword(toks, p + 2, "as")
             THEN IF ~IsType(toks, p + 3, "IDENTIFIER") THEN SyntaxError(p + 3)
                  ELSE Parsed(ImportStatement(module_name, TokenAt(toks, p + 3).value), p + 4)
             ELSE Parsed(ImportStatement(module_name, NoAlias), p + 2)

\* parse_statement on these tokens: the keyword import has its handler, an
\* identifier followed by none of : = [ ( . ++ is an expression, the variable
ParseImportBodyStatement(toks, p) ==
    IF IsKeyword(toks, p, "import") THEN ParseImportStatement(toks, p)
    ELSE IF IsType(toks, p, "IDENTIFIER") THEN Parsed(Variable(TokenAt(toks, p).value), p + 1)
    ELSE SyntaxError(p)

\* parse_block at the top level of the body: statements up to EOF
RECURSIVE ParseImportBody(_, _, _)
ParseImportBody(toks, p, statements) ==
    IF IsType(toks, p, "EOF") \/ p >= Len(toks) THEN Parsed(statements, p)
    ELSE LET r == ParseImportBodyStatement(toks, p)
         IN  IF ~r.ok THEN r
             ELSE ParseImportBody(toks, r.pos, Append(statements, r.node))

NoBinding == [n \in BoundNames |-> NoModule]
ImportPc(at, done) == [at |-> at, done |-> done]

\* alias = stmt.alias or module_name
BindingName(stmt) == IF stmt.alias = NoAlias THEN stmt.module_name ELSE stmt.alias

\* parse_function: the body is tokenized and parsed
ParseImports ==
    /\ importPc.at = "idle"
    /\ LET r == ParseImportBody(TokenizeImports(import_lines), 0, <<>>)
       IN  /\ import_block' = r.node
           /\ importPc' = ImportPc(IF r.ok THEN "parsed" ELSE "failed", 0)
    /\ UNCHANGED <<import_lines, imported_modules, local_scope>>
    /\ UNCHANGED importRest

\* execute_block reaches an import statement: _execute_import
ExecuteImport ==
    /\ importPc.at = "parsed" /\ importPc.done < Len(import_block)
    /\ LET stmt == import_block[importPc.done + 1]
       IN  /\ stmt.type = "ImportStatement"
           /\ IF stmt.module_name \in Loadable
              THEN /\ imported_modules' =
                          [imported_modules EXCEPT ![BindingName(stmt)] = stmt.module_name]
                   /\ local_scope' = [local_scope EXCEPT ![BindingName(stmt)] = stmt.module_name]
                   /\ importPc' = ImportPc("parsed", importPc.done + 1)
              ELSE /\ importPc' = ImportPc("failed", importPc.done)
                   /\ UNCHANGED <<imported_modules, local_scope>>
    /\ UNCHANGED <<import_lines, import_block>>
    /\ UNCHANGED importRest

\* execute_statement reaches a statement whose type has no handler, here a
\* Variable: "Unknown statement type"
ExecuteUnknownStatement ==
    /\ importPc.at = "parsed" /\ importPc.done < Len(import_block)
    /\ import_block[importPc.done + 1].type = "Variable"
    /\ importPc' = ImportPc("failed", importPc.done)
    /\ UNCHANGED <<import_lines, import_block, imported_modules, local_scope>>
    /\ UNCHANGED importRest

\* execute_block has run every statement
FinishImports ==
    /\ importPc.at = "parsed" /\ importPc.done = Len(import_block)
    /\ importPc' = ImportPc("done", importPc.done)
    /\ UNCHANGED <<import_lines, import_block, imported_modules, local_scope>>
    /\ UNCHANGED importRest

InitImportAs ==
    /\ import_lines \in ImportBodies
    /\ import_block = <<>>
    /\ imported_modules = NoBinding
    /\ local_scope = NoBinding
    /\ importPc = ImportPc("idle", 0)
    /\ ThreadIdle /\ FrameIdle /\ ModuleIdle /\ AssignIdle
    /\ ParseIdle /\ MergeIdle /\ DepthIdle /\ LexIdle
    /\ EvalIdle /\ ObjIdle /\ CloIdle
    /\ CacheIdle /\ LoaderIdle

NextImportAs == ParseImports \/ ExecuteImport \/ ExecuteUnknownStatement \/ FinishImports

SpecImportAs == InitImportAs /\ [][NextImportAs]_vars

\* the statements the lines are meant to be
IntendedImports ==
    [k \in 1..Len(import_lines) |->
        ImportStatement(import_lines[k].module_name, import_lines[k].alias)]

\* C24: every line "import M as A" parses to one import statement with module
\* name M and alias A, and once the body's first statement "import M as A" has
\* been executed, M is bound under A and not under M, in the executing scope
\* and in imported_modules alike.
C24_ImportAsBindsAlias ==
    /\ importPc.at \notin {"idle", "failed"} => import_block = IntendedImports
    /\ (importPc.at = "parsed" /\ importPc.done = 1 /\ import_lines[1].alias # NoAlias) =>
           LET line == import_lines[1]
           IN  /\ imported_modules[line.alias] = line.module_name
               /\ local_scope[line.alias] = line.module_name
               /\ imported_modules[line.module_name] = NoModule
               /\ local_scope[line.module_name] = NoModule

(***************************************************************************)
(* The loader context used from several threads                            *)
(* (hpl_runtime/modules/loader.py ModuleLoaderContext).  There is one      *)
(* instance, _loader_context, and _current_file_dir is an attribute of it. *)
(***************************************************************************)
MaxThreadOps == 4
Threads == {1, 2}
Unread == "unread"

\* set_current_file(file_path) called in thread t with a file of directory d
SetCurrentFile(t, d) ==
    /\ threadOps < MaxThreadOps
    /\ ctx' = d
    /\ thread_file' = [thread_file EXCEPT ![t] = d]
    /\ observed' = [observed EXCEPT ![t] = Unread]
    /\ threadOps' = threadOps + 1
    /\ UNCHANGED threadRest

\* get_current_file_dir() called in thread t
GetCurrentFileDir(t) ==
    /\ threadOps < MaxThreadOps
    /\ observed' = [observed EXCEPT ![t] = ctx]
    /\ threadOps' = threadOps + 1
    /\ UNCHANGED <<ctx, thread_file>>
    /\ UNCHANGED threadRest

\* clear() called in thread t
ClearContext(t) ==
    /\ threadOps < MaxThreadOps
    /\ ctx' = NoDir
    /\ thread_file' = [thread_file EXCEPT ![t] = NoDir]
    /\ observed' = [observed EXCEPT ![t] = Unread]
    /\ threadOps' = threadOps + 1
    /\ UNCHANGED threadRest

InitThreads ==
    /\ thread_file = [t \in Threads |-> NoDir]
    /\ observed = [t \in Threads |-> Unread]
    /\ threadOps = 0
    /\ ImportIdle /\ FrameIdle /\ ModuleIdle /\ AssignIdle
    /\ ParseIdle /\ MergeIdle /\ DepthIdle /\ LexIdle
    /\ EvalIdle /\ ObjIdle /\ CloIdle
    /\ CacheIdle /\ LoaderIdle

NextThreads ==
    \/ \E t \in Threads, d \in Dirs : SetCurrentFile(t, d)
    \/ \E t \in Threads : GetCurrentFileDir(t)
    \/ \E t \in Threads : ClearContext(t)

SpecThreads == InitThreads /\ [][NextThreads]_vars

\* C25: what get_current_file_dir returns in a thread is the directory of the
\* file that thread itself set last (none if it set none or cleared it),
\* whatever the other thread has set.
C25_ContextIsPerThread ==
    \A t \in Threads : observed[t] # Unread => observed[t] = thread_file[t]

(***************************************************************************)
(* What a call leaves behind (core/evaluator.py execute_function,          *)
(* _call_method, instantiate_object, evaluate_expression).  The run is     *)
(* taken at some point of its execution: call_stack holds the labels of    *)
(* the calls active at that point and expr_eval_depth the expressions      *)
(* entered.  From there calls and expressions are entered and left, by     *)
(* return or by a failure; `frames` holds one record per activation that   *)
(* has a finally clause to run, with what it saved on entry.               *)
(***************************************************************************)
MaxFrames == 3

\* object 1 is a B, object 2 is a C
ClassOfObject == <<"B", "C">>
CallKinds == {"function", "method", "parent", "constructor"}

Fields ==
    [call_stack |-> call_stack, current_obj |-> current_obj,
     current_class |-> current_class, expr_eval_depth |-> expr_eval_depth]
Frame(kind, obj, cls) ==
    [kind |-> kind, obj |-> obj, cls |-> cls, prev_obj |-> current_obj,
     prev_class |-> current_class, before |-> Fields]
NoFrame == [kind |-> "none", obj |-> None, cls |-> NoClass, prev_obj |-> None,
            prev_class |-> NoClass, before |-> <<>>]
Exit(fr, how) == [kind |-> fr.kind, how |-> how, obj |-> fr.obj, before |-> fr.before]
NoExit == [kind |-> "none", how |-> "none", obj |-> None, before |-> <<>>]

DropLast(s) == SubSeq(s, 1, Len(s) - 1)

\* the same as AfterFrame, but a method call puts back current_class only
AfterFrameKeepingObject(fr) ==
    CASE fr.kind = "expr" -> [Fields EXCEPT !.expr_eval_depth = @ - 1]
      [] fr.kind = "function" -> [Fields EXCEPT !.call_stack = DropLast(@)]
      [] fr.kind = "method" ->
            [Fields EXCEPT !.call_stack = DropLast(@), !.current_class = fr.prev_class]
      [] fr.kind \in {"parent", "constructor"} -> [Fields EXCEPT !.current_class = fr.prev_class]

\* The four fields once the finally clause of frame fr has run:
\* evaluate_expression counts down, execute_function pops its label,
\* _call_method pops its label and puts back current_obj and current_class,
\* the parent branch of _call_method and instantiate_object put back
\* current_class.
AfterFrame(fr) ==
    CASE fr.kind = "expr" -> [Fields EXCEPT !.expr_eval_depth = @ - 1]
      [] fr.kind = "function" -> [Fields EXCEPT !.call_stack = DropLast(@)]
      [] fr.kind = "method" ->
            [Fields EXCEPT !.call_stack = DropLast(@), !.current_obj = fr.prev_obj,
                           !.current_class = fr.prev_class]
      [] fr.kind \in {"parent", "constructor"} -> [Fields EXCEPT !.current_class = fr.prev_class]

SetFields(f) ==
    /\ call_stack' = f.call_stack
    /\ current_obj' = f.current_obj
    /\ current_class' = f.current_class
    /\ expr_eval_depth' = f.expr_eval_depth

CanEnter == ~unwinding /\ Len(frames) < MaxFrames
TopFrame == frames[Len(frames)]

\* evaluate_expression is entered: the counter goes up; past the limit it is
\* taken down again and the expression is refused
EnterExpression ==
    /\ CanEnter
    /\ IF expr_eval_depth + 1 > MAX_EXPR_DEPTH
       THEN /\ unwinding' = TRUE
            /\ UNCHANGED <<frames, expr_eval_depth>>
       ELSE /\ frames' = Append(frames, Frame("expr", None, NoClass))
            /\ expr_eval_depth' = expr_eval_depth + 1
            /\ UNCHANGED unwinding
    /\ lastExit' = NoExit
    /\ UNCHANGED <<call_stack, current_obj, current_class>>
    /\ UNCHANGED frameRest

\* execute_function(func, scope, func_name): refused when call_stack is
\* full, otherwise the label is pushed
EnterFunctionCall ==
    /\ CanEnter
    /\ IF Len(call_stack) >= MAX_RECURSION_DEPTH
       THEN /\ unwinding' = TRUE
            /\ lastExit' = Exit(Frame("function", None, NoClass), "failed")
            /\ UNCHANGED <<frames, call_stack>>
       ELSE /\ frames' = Append(frames, Frame("function", None, NoClass))
            /\ call_stack' = Append(call_stack, "f()")
            /\ lastExit' = NoExit
            /\ UNCHANGED unwinding
    /\ UNCHANGED <<current_obj, current_class, expr_eval_depth>>
    /\ UNCHANGED frameRest

\* _call_method(obj, m, args) on an object: current_obj and current_class are
\* set, the label is pushed, and inside the try execute_function(method,
\* scope) makes its depth check
EnterMethodCall(o, m) ==
    /\ CanEnter
    /\ LET owner == FindMethodOwnerClass(ClassOfObject[o], m)
       IN  IF owner = NoClass
           THEN /\ unwinding' = TRUE
                /\ lastExit' = Exit(Frame("method", o, NoClass), "failed")
                /\ UNCHANGED <<frames, call_stack, current_obj, current_class>>
           ELSE /\ frames' = Append(frames, Frame("method", o, owner))
                /\ current_obj' = o
                /\ current_class' = owner
                /\ call_stack' = Append(call_stack, "m()")
                /\ unwinding' = (Len(call_stack) + 1 >= MAX_RECURSION_DEPTH)
                /\ lastExit' = NoExit
    /\ UNCHANGED expr_eval_depth
    /\ UNCHANGED frameRest

\* _call_method(cls, m, args) on the class this.parent stands for: only
\* current_class is set; the method must be cls's own
EnterParentCall(m) ==
    /\ CanEnter
    /\ current_obj # None /\ current_class # NoClass
    /\ ParentOf[current_class] # NoClass
    /\ LET cls == ParentOf[current_class]
       IN  IF m \in DOMAIN Methods[cls] \/ (m = "init" /\ "__init__" \in DOMAIN Methods[cls])
           THEN /\ frames' = Append(frames, Frame("parent", current_obj, cls))
                /\ current_class' = cls
                /\ unwinding' = (Len(call_stack) >= MAX_RECURSION_DEPTH)
                /\ lastExit' = NoExit
           ELSE /\ unwinding' = TRUE
                /\ lastExit' = Exit(Frame("parent", current_obj, cls), "failed")
                /\ UNCHANGED <<frames, current_class>>
    /\ UNCHANGED <<call_stack, current_obj, expr_eval_depth>>
    /\ UNCHANGED frameRest

\* instantiate_object: current_class is the new object's class while
\* _call_constructor runs
EnterInstantiate(o) ==
    /\ CanEnter
    /\ frames' = Append(frames, Frame("constructor", o, ClassOfObject[o]))
    /\ current_class' = ClassOfObject[o]
    /\ lastExit' = NoExit
    /\ UNCHANGED <<call_stack, current_obj, expr_eval_depth, unwinding>>
    /\ UNCHANGED frameRest

\* the innermost activation returns
LeaveFrame ==
    /\ ~unwinding /\ frames # <<>>
    /\ SetFields(AfterFrame(TopFrame))
    /\ frames' = DropLast(frames)
    /\ lastExit' = Exit(TopFrame, "returned")
    /\ UNCHANGED unwinding
    /\ UNCHANGED frameRest

\* a statement of the innermost body fails
RaiseFailure ==
    /\ ~unwinding /\ frames # <<>>
    /\ unwinding' = TRUE
    /\ lastExit' = NoExit
    /\ UNCHANGED <<call_stack, current_obj, current_class, expr_eval_depth, frames>>
    /\ UNCHANGED frameRest

\* the failure leaves the innermost activation through its finally clause
UnwindFrame ==
    /\ unwinding /\ frames # <<>>
    /\ SetFields(AfterFrame(TopFrame))
    /\ frames' = DropLast(frames)
    /\ lastExit' = Exit(TopFrame, "failed")
    /\ UNCHANGED unwinding
    /\ UNCHANGED frameRest

\* a try statement of the body the failure has reached catches it
CatchFailure ==
    /\ unwinding
    /\ unwinding' = FALSE
    /\ lastExit' = NoExit
    /\ UNCHANGED <<call_stack, current_obj, current_class, expr_eval_depth, frames>>
    /\ UNCHANGED frameRest

\* the run at its start, close to the call-depth limit, or close to the
\* expression-depth limit
StartPoints ==
    {[call_stack |-> <<>>, expr_eval_depth |-> 0],
     [call_stack |-> [k \in 1..(MAX_RECURSION_DEPTH - 1) |-> "f()"], expr_eval_depth |-> 0],
     [call_stack |-> <<"main()">>, expr_eval_depth |-> MAX_EXPR_DEPTH - 1]}

InitFrames ==
    /\ \E sp \in StartPoints :
          call_stack = sp.call_stack /\ expr_eval_depth = sp.expr_eval_depth
    /\ rec = NoRec
    /\ current_obj = None /\ current_class = NoClass
    /\ frames = <<>> /\ unwinding = FALSE /\ lastExit = NoExit
    /\ ImportIdle /\ ThreadIdle /\ ModuleIdle /\ AssignIdle
    /\ ParseIdle /\ MergeIdle /\ LexIdle
    /\ EvalIdle /\ ObjIdle /\ CloIdle
    /\ CacheIdle /\ LoaderIdle

NextFrames ==
    \/ EnterExpression
    \/ EnterFunctionCall
    \/ \E o \in DOMAIN ClassOfObject, m \in MethodNames \cup {"nomethod"} : EnterMethodCall(o, m)
    \/ \E m \in MethodNames : EnterParentCall(m)
    \/ \E o \in DOMAIN ClassOfObject : EnterInstantiate(o)
    \/ LeaveFrame
    \/ RaiseFailure
    \/ UnwindFrame
    \/ CatchFailure

SpecFrames == InitFrames /\ [][NextFrames]_vars

\* C26: when a function call, a method call, a parent-method call or a
\* constructor call has just returned or failed, call_stack, current_obj,
\* current_class and expr_eval_depth are what they were just before the call.
C26_CallRestoresEvaluatorState ==
    lastExit.kind \in CallKinds => Fields = lastExit.before

\* a method call on object 2, made while a method of object 1 was running,
\* has failed
C26_Witness ==
    /\ lastExit.kind = "method" /\ lastExit.how = "failed"
    /\ lastExit.obj = 2
    /\ lastExit.before.current_obj = 1
    /\ lastExit.before.current_class = "A"
    /\ Len(lastExit.before.call_stack) > 0
    /\ current_obj = 1

(***************************************************************************)
(* The cache after a failed load (modules/loader.py load_module,           *)
(* _parse_hpl_module).                                                     *)
(***************************************************************************)
\* the names whose load is failing or has just failed
FailedNames ==
    (IF failing THEN {stack[i].name : i \in 1..Len(stack)} ELSE {})
        \cup (IF result.st = "fail" THEN {result.name} ELSE {})

\* C27: a load that fails (not found, parse failure, failure of a nested
\* import, cycle) leaves no cache entry for the name it was asked for, so a
\* later load of that name does not hit the cache; and no step of a failure
\* changes the cache, so what nested loads cached before it stays cached.
C27_FailedLoadNotCached ==
    /\ [](\A n \in FailedNames : n \notin CacheKeys(cache))
    /\ [][(failing \/ failing' \/ (result' # result /\ result'.st = "fail"))
             => cache' = cache]_vars

\* the load of a has failed at its second import after its first import,
\* lib/b, was loaded and cached
C27_Witness ==
    /\ result = Fail(<<"a">>, "hpl")
    /\ <<"a">> \notin CacheKeys(cache)
    /\ <<"lib", "b">> \in CacheKeys(cache)
    /\ made[<<"lib", "b">>] = 1 /\ made[<<"root", "a">>] = 1
    /\ Len(files[<<"root", "a">>].imports) = 2
    /\ files[<<"root", "a">>].imports[1] = <<"lib", "b">>

(***************************************************************************)
(* Import statements run by the code of a loaded module                    *)
(* (modules/loader.py _parse_hpl_module, core/evaluator.py                 *)
(* _execute_import).  The main file imports one module; the constructors   *)
(* of the module's declared objects run while it is being loaded, its      *)
(* functions are called by the main file once it is loaded.  The module    *)
(* name of an import statement is an identifier.                           *)
(***************************************************************************)
MaxModuleImports == 3
StatementNames == {<<"a">>, <<"c">>}
NoImport == [name |-> <<"none">>, found |-> NoFile, when |-> "none"]

\* load_module(n) as _execute_import calls it; the imported file has no
\* imports of its own, and its _parse_hpl_module call leaves the context
\* and the in-flight set as it found them
ImportByModuleCode(n, when) ==
    /\ modImports < MaxModuleImports
    /\ n # mod_name
    /\ modImports' = modImports + 1
    /\ LET out == LoadOutcome(n, "none")
           f == FindHplFile(ctx, n)
       IN  CASE out = "hit" ->
                  /\ lastImport' = [name |-> n, found |-> CacheValue(cache, n)[2], when |-> when]
                  /\ cache' = CacheGet(cache, n)
             [] out = "hpl" ->
                  /\ lastImport' = [name |-> n, found |-> f, when |-> when]
                  /\ cache' = CachePut(cache, n, <<"hpl", f, 1>>, CacheCapacity)
             [] OTHER ->
                  /\ lastImport' = [name |-> n, found |-> NoFile, when |-> when]
                  /\ UNCHANGED cache
    /\ UNCHANGED <<ctx, loading, mod_name, mod_file, mod_prev, modPc>>
    /\ UNCHANGED moduleRest

\* set_current_hpl_file(main file), called by the interpreter before the run
SetMainFile(d) ==
    /\ modPc = "start"
    /\ ctx' = d
    /\ modPc' = "main"
    /\ UNCHANGED <<cache, loading, mod_name, mod_file, mod_prev, lastImport, modImports>>
    /\ UNCHANGED moduleRest

\* the main file's import of the module: load_module finds its file and
\* _parse_hpl_module switches the context to the file's directory
BeginModuleLoad(n) ==
    /\ modPc \in {"start", "main"}
    /\ LoadOutcome(n, "none") = "hpl"
    /\ mod_name' = n
    /\ mod_file' = FindHplFile(ctx, n)
    /\ mod_prev' = ctx
    /\ loading' = MarkLoading(loading, n)
    /\ ctx' = FindHplFile(ctx, n)[1]
    /\ modPc' = "loading"
    /\ UNCHANGED <<cache, lastImport, modImports>>
    /\ UNCHANGED moduleRest

\* _parse_hpl_module runs the constructor of a declared object, which
\* executes import n
ImportInConstructor(n) ==
    /\ modPc = "loading"
    /\ ImportByModuleCode(n, "loading")

\* _parse_hpl_module returns: the context is put back, load_module caches
\* the module
EndModuleLoad ==
    /\ modPc = "loading"
    /\ loading' = loading \ {mod_name}
    /\ ctx' = mod_prev
    /\ cache' = CachePut(cache, mod_name, <<"hpl", mod_file, 1>>, CacheCapacity)
    /\ modPc' = "loaded"
    /\ UNCHANGED <<mod_name, mod_file, mod_prev, lastImport, modImports>>
    /\ UNCHANGED moduleRest

\* the main file calls a function of the module (the wrapper runs
\* execute_function), which executes import n
ImportInModuleFunction(n) ==
    /\ modPc = "loaded"
    /\ ImportByModuleCode(n, "loaded")

InitModuleCall ==
    /\ mod_name = <<"none">> /\ mod_file = NoFile /\ mod_prev = NoDir
    /\ lastImport = NoImport /\ modImports = 0 /\ modPc = "start"
    /\ ImportIdle /\ ThreadIdle /\ FrameIdle /\ AssignIdle
    /\ ParseIdle /\ MergeIdle /\ DepthIdle /\ LexIdle
    /\ EvalIdle /\ ObjIdle /\ CloIdle
    /\ CacheIdle /\ LoaderIdle

NextModuleCall ==
    \/ \E d \in Dirs : SetMainFile(d)
    \/ \E n \in Names : BeginModuleLoad(n)
    \/ \E n \in StatementNames : ImportInConstructor(n)
    \/ EndModuleLoad
    \/ \E n \in StatementNames : ImportInModuleFunction(n)

SpecModuleCall == InitModuleCall /\ [][NextModuleCall]_vars

\* C28: an import statement run by code of the module, during its load or
\* after it, finds the file that the name resolves to from the module's own
\* directory.
C28_ResolvesAgainstOwnDirectory ==
    lastImport.when # "none" => lastImport.found = FindHplFile(mod_file[1], lastImport.name)

(***************************************************************************)
(* Assignment and increment in a call frame (core/evaluator.py             *)
(* _execute_assignment, _execute_increment, _eval_postfix_increment,       *)
(* _lookup_variable, _update_variable).  The two maps give each name a     *)
(* number or Unbound (the name is not a key of the dictionary).            *)
(***************************************************************************)
MaxStatements == 3
MaxCount == 4
ScopeNames == {"x", "y"}

\* the expressions on the right of an assignment: a literal, u + 1, u++
Lit(n) == [e |-> "lit", n |-> n, var |-> "none"]
PlusOne(u) == [e |-> "plus", n |-> 1, var |-> u]
PostIncr(u) == [e |-> "postincr", n |-> 1, var |-> u]
Expressions ==
    {Lit(n) : n \in {0, 1}} \cup {PlusOne(u) : u \in ScopeNames}
        \cup {PostIncr(u) : u \in ScopeNames}

AssignTo(v, e) == [s |-> "assign", var |-> v, expr |-> e]
IncrementOf(v) == [s |-> "increment", var |-> v, expr |-> Lit(0)]
NoStatement == [s |-> "none", var |-> "none", expr |-> Lit(0)]

Maps(loc, glob) == [loc |-> loc, glob |-> glob]

\* _lookup_variable: the local map, then the global map; -1 when the name
\* is in neither (HPLNameError)
Lookup(name, sc) ==
    IF sc.loc[name] # Unbound THEN sc.loc[name] ELSE sc.glob[name]

\* an update that follows the binding, as an increment does
BindWhereBound(name, value, sc) ==
    IF sc.loc[name] # Unbound THEN Maps([sc.loc EXCEPT ![name] = value], sc.glob)
    ELSE IF sc.glob[name] # Unbound THEN Maps(sc.loc, [sc.glob EXCEPT ![name] = value])
    ELSE Maps([sc.loc EXCEPT ![name] = value], sc.glob)

\* _execute_assignment, a name without a dot: local_scope[var_name] = value
BindLocal(name, value, sc) == Maps([sc.loc EXCEPT ![name] = value], sc.glob)

\* _update_variable
UpdateVariable(name, value, sc) ==
    IF sc.loc[name] # Unbound THEN Maps([sc.loc EXCEPT ![name] = value], sc.glob)
    ELSE IF sc.glob[name] # Unbound THEN Maps(sc.loc, [sc.glob EXCEPT ![name] = value])
    ELSE Maps([sc.loc EXCEPT ![name] = value], sc.glob)

\* evaluate_expression: the value, whether it failed, the maps after it
Evaluate(e, sc) ==
    CASE e.e = "lit" -> [ok |-> TRUE, value |-> e.n, sc |-> sc]
      [] e.e = "plus" ->
            IF Lookup(e.var, sc) = Unbound THEN [ok |-> FALSE, value |-> 0, sc |-> sc]
            ELSE [ok |-> TRUE, value |-> Lookup(e.var, sc) + 1, sc |-> sc]
      [] e.e = "postincr" ->
            IF Lookup(e.var, sc) = Unbound THEN [ok |-> FALSE, value |-> 0, sc |-> sc]
            ELSE [ok |-> TRUE, value |-> Lookup(e.var, sc),
                  sc |-> UpdateVariable(e.var, Lookup(e.var, sc) + 1, sc)]

Current == Maps(frame_scope, global_scope)
Small(sc) == \A n \in ScopeNames : sc.loc[n] <= MaxCount /\ sc.glob[n] <= MaxCount

\* execute_block goes on to the next statement unless one has failed
Executing == stmtCount < MaxStatements /\ (lastStmt.s = "none" \/ lastStmt.ok)

Record(stmt, ok, sc) ==
    /\ Small(sc)
    /\ stmtCount' = stmtCount + 1
    /\ frame_scope' = sc.loc
    /\ global_scope' = sc.glob
    /\ lastStmt' = [s |-> stmt.s, var |-> stmt.var, expr |-> stmt.expr, ok |-> ok,
                    before |-> Current]
    /\ UNCHANGED assignRest

\* v = e
ExecuteAssignment(v, e) ==
    /\ Executing
    /\ LET r == Evaluate(e, Current)
       IN  Record(AssignTo(v, e), r.ok, IF r.ok THEN BindLocal(v, r.value, r.sc) ELSE r.sc)

\* v++
ExecuteIncrement(v) ==
    /\ Executing
    /\ LET value == Lookup(v, Current)
       IN  Record(IncrementOf(v), value # Unbound,
                  IF value # Unbound THEN UpdateVariable(v, value + 1, Current) ELSE Current)

\* a call frame begins: its parameters are bound, the global map holds the
\* declared data
InitAssign ==
    /\ frame_scope \in [ScopeNames -> {Unbound, 0}]
    /\ global_scope \in [ScopeNames -> {Unbound, 1}]
    /\ lastStmt = [s |-> "none", var |-> "none", expr |-> Lit(0), ok |-> TRUE,
                   before |-> Maps(frame_scope, global_scope)]
    /\ stmtCount = 0
    /\ ImportIdle /\ ThreadIdle /\ FrameIdle /\ ModuleIdle
    /\ ParseIdle /\ MergeIdle /\ DepthIdle /\ LexIdle
    /\ EvalIdle /\ ObjIdle /\ CloIdle
    /\ CacheIdle /\ LoaderIdle

NextAssign ==
    \/ \E v \in ScopeNames, e \in Expressions : ExecuteAssignment(v, e)
    \/ \E v \in ScopeNames : ExecuteIncrement(v)

SpecAssign == InitAssign /\ [][NextAssign]_vars

Assigned == lastStmt.s = "assign" /\ lastStmt.ok
Incremented == lastStmt.s = "increment" /\ lastStmt.ok
\* the names other than n have in map `after` the value they have in `before`
SameExcept(after, before, n) == \A m \in ScopeNames \ {n} : after[m] = before[m]

\* C29: after an assignment v = e the name v is bound in the frame's map
\* to the value of e, and the global map is as it was, except for a name
\* that e itself increments; after an increment v++ of a name that is not
\* bound in the frame's map the global binding is one higher and the
\* frame's map is as it was, otherwise the frame's binding is one higher
\* and the global map is as it was.  So v = v + 1 on a global-only v leaves
\* the global value, and v++ raises it.
C29_AssignLocalIncrementFollowsBinding ==
    /\ Assigned =>
          /\ frame_scope[lastStmt.var] # Unbound
          /\ frame_scope[lastStmt.var] = Evaluate(lastStmt.expr, lastStmt.before).value
          /\ IF lastStmt.expr.e = "postincr"
             THEN SameExcept(global_scope, lastStmt.before.glob, lastStmt.expr.var)
             ELSE global_scope = lastStmt.before.glob
    /\ Incremented =>
          IF lastStmt.before.loc[lastStmt.var] = Unbound
          THEN /\ global_scope[lastStmt.var] = lastStmt.before.glob[lastStmt.var] + 1
               /\ SameExcept(global_scope, lastStmt.before.glob, lastStmt.var)
               /\ frame_scope = lastStmt.before.loc
          ELSE /\ frame_scope[lastStmt.var] = lastStmt.before.loc[lastStmt.var] + 1
               /\ SameExcept(frame_scope, lastStmt.before.loc, lastStmt.var)
               /\ global_scope = lastStmt.before.glob

\* x = x + 1 was run on an x bound only in the global map
C29_Witness ==
    /\ Assigned /\ lastStmt.var = "x" /\ lastStmt.expr = PlusOne("x")
    /\ lastStmt.before.loc["x"] = Unbound /\ lastStmt.before.glob["x"] = 2
    /\ frame_scope["x"] = 3 /\ global_scope["x"] = 2

====
